---- MODULE Spec2Model ----
(***************************************************************************)
(* Host-side configuration tools of JoyCore-FW: the 64-byte feature-report *)
(* frame builders, the receive paths of the HID scripts, and the binary    *)
(* decoders of the stored configuration and of the status structure.       *)
(*                                                                         *)
(* Byte strings are sequences of 0..255 (index 1 is Python's index 0).     *)
(* Python's None is the record None, a dict is a record, a raised          *)
(* exception is the record Raise(name), text is a sequence of code points. *)
(***************************************************************************)
EXTENDS Integers, Sequences, FiniteSets, TLC

VARIABLES
    payload,    \* data handed to the frame builders
    msgType,    \* message type handed to the frame builders
    frames,     \* per builder: the frames it returned (<<>> before the call)
    buf,        \* byte buffer handed to the decoders
    results,    \* per decoder: NotRun, or what the decoder returned
    script,     \* which script's main is running
    pc,         \* where that main is
    devDoc,     \* the configuration the device stores
    devQueue,   \* frames the device still holds for the host to read
    deviceOpen, \* the HID device handle is open
    request,    \* the last frame the host wrote to the device
    received,   \* frames the host read for the command in progress
    response,   \* what the send function returned: bytes or None
    transport,  \* what the transport did in the last send call
    log,        \* per handled command: what was decoded and presented
    tool,       \* which serial-line tool runs
    fgpc,       \* where the tool's foreground thread is
    bgpc,       \* where the tool's background monitor thread is
    monitoring_active, \* the flag the background loop tests
    portOpen,   \* the serial port is open
    rx,         \* lines the device sent that no thread has read yet
    tx,         \* commands written to the port that the device has not handled
    dev,        \* the device: monitoring mode, replying, lines it will send
    fgLines,    \* the non-blank lines the foreground thread read, in order
    bgLines,    \* the non-blank lines the background thread read, in order
    sent,       \* every command written, with the background thread's position
    gpio_state,      \* RawStateMonitor: the GPIO bits last reported
    matrix_state,    \* RawStateMonitor: row -> column -> 0 or 1
    shift_reg_state, \* RawStateMonitor: register id -> value
    update_count,    \* RawStateMonitor: lines handed to parse_state_line
    state_line       \* the line last handed to parse_state_line

buildVars == <<payload, msgType, frames>>
decodeVars == <<buf, results>>
sessionVars ==
    <<script, pc, devDoc, devQueue, deviceOpen, request, received, response,
      transport, log>>
lineVars ==
    <<tool, fgpc, bgpc, monitoring_active, portOpen, rx, tx, dev, fgLines,
      bgLines, sent>>
stateVars ==
    <<gpio_state, matrix_state, shift_reg_state, update_count, state_line>>
vars == <<buildVars, decodeVars, sessionVars, lineVars, stateVars>>

(***************************************************************************)
(* Program constants                                                       *)
(***************************************************************************)
CONFIG_USB_FEATURE_REPORT_ID == 2
CONFIG_USB_MAX_PACKET_SIZE == 64
GET_CONFIG == 1
SET_CONFIG == 2
RESET_CONFIG == 3
VALIDATE_CONFIG == 4
GET_CONFIG_STATUS == 5
SAVE_CONFIG == 6
LOAD_CONFIG == 7
MessageTypes == GET_CONFIG..LOAD_CONFIG
\* uint8_t data[56]: CONFIG_USB_MAX_PACKET_SIZE - 8
DataCapacity == 56
HeaderSize == 8

(***************************************************************************)
(* Bounds of the model                                                     *)
(***************************************************************************)
MaxPayload == 58

(***************************************************************************)
(* Python values                                                           *)
(***************************************************************************)
None == [none |-> TRUE]
NotRun == [notrun |-> TRUE]
Raise(name) == [raise |-> name]

Min(a, b) == IF a < b THEN a ELSE b
Max(a, b) == IF a > b THEN a ELSE b

\* d[a:b] for 0 <= a, with Python's clamping at the end of d
Slice(d, a, b) == SubSeq(d, a + 1, Min(b, Len(d)))
\* d[a:]
From(d, a) == SubSeq(d, a + 1, Len(d))
\* d[i] with Python's 0-based index
At(d, i) == d[i + 1]
Zeros(n) == [i \in 1..n |-> 0]

\* struct.unpack('<H', d[off:off+2])[0]
U16(d, off) == At(d, off) + 256 * At(d, off + 1)
\* struct.unpack('<I', d[off:off+4])[0]: the unsigned 32-bit value
\* hi * 65536 + lo, kept as its two 16-bit halves
U32(d, off) == [hi |-> U16(d, off + 2), lo |-> U16(d, off)]
\* the 32-bit value of a number below 65536
W32(n) == [hi |-> 0, lo |-> n]

(***************************************************************************)
(* Frame builders                                                          *)
(***************************************************************************)
\* the 8 header bytes every builder writes: reportID, type, sequence,
\* totalPackets, dataLength (little-endian, 16 bit), status, reserved
FrameHeader(msg_type, sequence, total_packets, n) ==
    <<CONFIG_USB_FEATURE_REPORT_ID, msg_type, sequence, total_packets,
      n % 256, (n \div 256) % 256, 0, 0>>

\* bytearray slice assignment message[8:8+len(data)] = data on a 64-byte
\* bytearray: the slice is clamped to the array, then replaced by all of data
SliceAssign8(data) ==
    data \o Zeros(CONFIG_USB_MAX_PACKET_SIZE - Min(HeaderSize + Len(data),
                                                   CONFIG_USB_MAX_PACKET_SIZE))

\* read_config_hid.create_config_message
Hid_create_config_message(msg_type, sequence, total_packets, data) ==
    FrameHeader(msg_type, sequence, total_packets, Len(data))
        \o SliceAssign8(data)

\* read_config_winusb.JoyCoreConfig.create_message
Winusb_create_message(msg_type, data) ==
    FrameHeader(msg_type, 0, 1, Len(data))
        \o [i \in 1..DataCapacity |->
               IF i <= Min(Len(data), 56) THEN data[i] ELSE 0]

\* test/test_config.create_config_message with dataLength written big-endian
Test_create_config_message_big_endian(msg_type, data) ==
    <<CONFIG_USB_FEATURE_REPORT_ID, msg_type, 0, 1,
      (Len(data) \div 256) % 256, Len(data) % 256, 0, 0>> \o SliceAssign8(data)

\* test/test_config.create_config_message
Test_create_config_message(msg_type, data) ==
    FrameHeader(msg_type, 0, 1, Len(data)) \o SliceAssign8(data)

\* fields of a frame, as the receive paths read them
FrameSequence(f) == At(f, 2)
FrameTotalPackets(f) == At(f, 3)
FrameDataLength(f) == U16(f, 4)
FrameStatus(f) == At(f, 6)

(***************************************************************************)
(* Text                                                                    *)
(***************************************************************************)
IsCont(c) == c >= 128 /\ c <= 191

\* bytes.decode('utf-8', errors='ignore'), from index i of b: a well-formed
\* sequence yields its code point, any other byte is dropped
RECURSIVE Utf8Ignore(_, _)
Utf8Ignore(b, i) ==
    IF i > Len(b) THEN <<>>
    ELSE LET c == b[i]
             n == Len(b)
             c1 == IF i + 1 <= n THEN b[i + 1] ELSE 0
             c2 == IF i + 2 <= n THEN b[i + 2] ELSE 0
             c3 == IF i + 3 <= n THEN b[i + 3] ELSE 0
         IN
         IF c < 128 THEN <<c>> \o Utf8Ignore(b, i + 1)
         ELSE IF c >= 194 /\ c <= 223 /\ IsCont(c1)
             THEN <<(c - 192) * 64 + (c1 - 128)>> \o Utf8Ignore(b, i + 2)
         ELSE IF /\ c >= 224 /\ c <= 239 /\ IsCont(c1) /\ IsCont(c2)
                 /\ (c = 224 => c1 >= 160)
                 /\ (c = 237 => c1 <= 159)
             THEN <<(c - 224) * 4096 + (c1 - 128) * 64 + (c2 - 128)>>
                      \o Utf8Ignore(b, i + 3)
         ELSE IF /\ c >= 240 /\ c <= 244
                 /\ IsCont(c1) /\ IsCont(c2) /\ IsCont(c3)
                 /\ (c = 240 => c1 >= 144)
                 /\ (c = 244 => c1 <= 143)
             THEN <<(c - 240) * 262144 + (c1 - 128) * 4096 + (c2 - 128) * 64
                        + (c3 - 128)>> \o Utf8Ignore(b, i + 4)
         ELSE Utf8Ignore(b, i + 1)

\* str.rstrip('\x00')
RECURSIVE RstripNul(_)
RstripNul(s) ==
    IF s # <<>> /\ s[Len(s)] = 0 THEN RstripNul(SubSeq(s, 1, Len(s) - 1)) ELSE s

\* slot.decode('utf-8', errors='ignore') without the rstrip
DecodeText_unstripped(slot) == Utf8Ignore(slot, 1)

\* slot.decode('utf-8', errors='ignore').rstrip('\x00')
DecodeText(slot) == RstripNul(Utf8Ignore(slot, 1))

HexUpper == <<"0", "1", "2", "3", "4", "5", "6", "7", "8", "9",
              "A", "B", "C", "D", "E", "F">>

\* the w low hex digits of n, most significant first
RECURSIVE HexDigits(_, _, _)
HexDigits(n, w, digits) ==
    IF w = 0 THEN ""
    ELSE HexDigits(n \div 16, w - 1, digits) \o digits[(n % 16) + 1]

\* f"0x{w:08X}" for a 32-bit value w
Fmt08X(w) == "0x" \o HexDigits(w.hi, 4, HexUpper) \o HexDigits(w.lo, 4, HexUpper)
\* f"0x{n:04X}" for n < 2^16
Fmt04X(n) == "0x" \o HexDigits(n, 4, HexUpper)

\* ''.join(chr((magic >> (8*i)) & 0xFF) for i in range(4))
MagicStr(magic) ==
    <<magic.lo % 256, magic.lo \div 256, magic.hi % 256, magic.hi \div 256>>

(***************************************************************************)
(* Decoders of read_config_hid                                             *)
(***************************************************************************)
Hid_parse_config_header(data) ==
    IF Len(data) < 16 THEN None
    ELSE [magic |-> U32(data, 0),
          version |-> U16(data, 4),
          size |-> U16(data, 6),
          checksum |-> U32(data, 8),
          magic_str |-> MagicStr(U32(data, 0))]

Hid_parse_usb_descriptor(data) ==
    IF Len(data) < 76 THEN None
    ELSE [vendorID |-> U16(data, 0),
          productID |-> U16(data, 2),
          manufacturer |-> DecodeText(Slice(data, 4, 36)),
          product |-> DecodeText(Slice(data, 36, 68))]

Hid_axis(data, offset) ==
    [enabled |-> At(data, offset) # 0,
     pin |-> At(data, offset + 1),
     minValue |-> U16(data, offset + 2),
     maxValue |-> U16(data, offset + 4),
     filterLevel |-> At(data, offset + 6),
     ewmaAlpha |-> At(data, offset + 7),
     deadband |-> U16(data, offset + 8),
     curve |-> At(data, offset + 10)]

\* the loop over range(8): an entry is appended, and the offset advanced,
\* only while 16 more bytes remain
RECURSIVE Hid_axes(_, _, _)
Hid_axes(data, offset, i) ==
    IF i = 8 THEN [axes |-> <<>>, offset |-> offset]
    ELSE IF Len(data) >= offset + 16
        THEN LET rest == Hid_axes(data, offset + 16, i + 1)
             IN [axes |-> <<Hid_axis(data, offset)>> \o rest.axes,
                 offset |-> rest.offset]
        ELSE Hid_axes(data, offset, i + 1)

Hid_parse_stored_config(data) ==
    LET header == Hid_parse_config_header(From(data, 0))
        usb == Hid_parse_usb_descriptor(From(data, 16))
        hasCounts == Len(data) >= 92 + 4
        ax == Hid_axes(data, IF hasCounts THEN 96 ELSE 92, 0)
    IN  IF header = None THEN None
        ELSE IF usb = None THEN None
        ELSE IF hasCounts
            THEN [header |-> header, usb |-> usb,
                  pinMapCount |-> At(data, 92),
                  logicalInputCount |-> At(data, 93),
                  shiftRegCount |-> At(data, 94),
                  axes |-> ax.axes,
                  variable_data_offset |-> ax.offset]
            ELSE [header |-> header, usb |-> usb,
                  axes |-> ax.axes,
                  variable_data_offset |-> ax.offset]

\* parse_config_status reading configVersion after a padded storageAvailable
Hid_parse_config_status_padded(data) ==
    IF Len(data) < 20 THEN None
    ELSE [storageInitialized |-> At(data, 0) # 0,
          configLoaded |-> At(data, 1) # 0,
          usingDefaults |-> At(data, 2) # 0,
          currentMode |-> At(data, 3),
          storageUsed |-> U32(data, 4),
          storageAvailable |-> U32(data, 8),
          configVersion |-> U16(data, 14),
          modeName |-> CASE At(data, 3) = 0 -> "STATIC"
                         [] At(data, 3) = 1 -> "STORAGE"
                         [] At(data, 3) = 2 -> "HYBRID"
                         [] OTHER -> "UNKNOWN"]

\* read_config_hid.parse_config_status
Hid_parse_config_status(data) ==
    IF Len(data) < 20 THEN None
    ELSE [storageInitialized |-> At(data, 0) # 0,
          configLoaded |-> At(data, 1) # 0,
          usingDefaults |-> At(data, 2) # 0,
          currentMode |-> At(data, 3),
          storageUsed |-> U32(data, 4),
          storageAvailable |-> U32(data, 8),
          configVersion |-> U16(data, 12),
          modeName |-> CASE At(data, 3) = 0 -> "STATIC"
                         [] At(data, 3) = 1 -> "STORAGE"
                         [] At(data, 3) = 2 -> "HYBRID"
                         [] OTHER -> "UNKNOWN"]

(***************************************************************************)
(* Decoders of read_config_winusb, read_config_serial, read_rp2040_storage *)
(* and test_config                                                         *)
(***************************************************************************)
\* read_config_winusb.JoyCoreConfig.parse_status
Winusb_parse_status(data) ==
    IF Len(data) < 20 THEN None
    ELSE [storageInitialized |-> At(data, 0) # 0,
          configLoaded |-> At(data, 1) # 0,
          usingDefaults |-> At(data, 2) # 0,
          currentMode |-> At(data, 3),
          storageUsed |-> U32(data, 4),
          storageAvailable |-> U32(data, 8),
          configVersion |-> U16(data, 12),
          modeName |-> CASE At(data, 3) = 0 -> "STATIC"
                         [] At(data, 3) = 1 -> "STORAGE"
                         [] At(data, 3) = 2 -> "HYBRID"
                         [] OTHER -> "UNKNOWN"]

\* the status decode inlined in test_config.test_get_status, on the data of
\* a parsed response: nothing is decoded below 16 declared bytes; a data
\* slice shorter than the fields read raises (IndexError or struct.error)
Test_status_decode(data_length, data) ==
    IF data_length < 16 THEN None
    ELSE IF Len(data) < 14 THEN Raise("Exception")
    ELSE [storageInitialized |-> At(data, 0) # 0,
          configLoaded |-> At(data, 1) # 0,
          usingDefaults |-> At(data, 2) # 0,
          currentMode |-> At(data, 3),
          storageUsed |-> U32(data, 4),
          storageAvailable |-> U32(data, 8),
          configVersion |-> U16(data, 12)]

Serial_header(data) ==
    [magic |-> Fmt08X(U32(data, 0)),
     magic_str |-> MagicStr(U32(data, 0)),
     version |-> U16(data, 4),
     size |-> U16(data, 6),
     checksum |-> Fmt08X(U32(data, 8))]

Serial_usb(data) ==
    [vendorID |-> Fmt04X(U16(data, 16)),
     productID |-> Fmt04X(U16(data, 18)),
     manufacturer |-> DecodeText(Slice(data, 20, 52)),
     product |-> DecodeText(Slice(data, 52, 84))]

Serial_counts(data) ==
    [pinMapCount |-> At(data, 92),
     logicalInputCount |-> At(data, 93),
     shiftRegCount |-> At(data, 94)]

\* read_config_serial.parse_config_data
Serial_parse_config_data(data) ==
    IF Len(data) < 16 THEN None
    ELSE IF Len(data) >= 96
        THEN [header |-> Serial_header(data), usb |-> Serial_usb(data),
              counts |-> Serial_counts(data)]
    ELSE IF Len(data) >= 92
        THEN [header |-> Serial_header(data), usb |-> Serial_usb(data)]
    ELSE [header |-> Serial_header(data)]

\* read_rp2040_storage.parse_config_header: struct.unpack('<IHHII', ...)
\* returns five values (magic, version, size, checksum and the reserved
\* word), which the assignment to four names cannot take
Rp2040_parse_config_header(data) ==
    IF Len(data) < 16 THEN None
    ELSE Raise("ValueError")

HexLower == <<"0", "1", "2", "3", "4", "5", "6", "7", "8", "9",
              "a", "b", "c", "d", "e", "f">>
RECURSIVE HexMinimal(_)
HexMinimal(n) ==
    IF n < 16 THEN HexLower[n + 1] ELSE HexMinimal(n \div 16) \o HexLower[(n % 16) + 1]
\* hex(n) for n >= 0
PyHex(n) == "0x" \o HexMinimal(n)

\* read_rp2040_storage.parse_usb_descriptor: the pair (descriptor, offset)
Rp2040_parse_usb_descriptor(data, offset) ==
    IF Len(data) < offset + 76 THEN [usb |-> None, offset |-> offset]
    ELSE [usb |-> [vendorID |-> PyHex(U16(data, offset)),
                   productID |-> PyHex(U16(data, offset + 2)),
                   manufacturer |-> DecodeText(Slice(data, offset + 4, offset + 36)),
                   product |-> DecodeText(Slice(data, offset + 36, offset + 68))],
          offset |-> offset + 76]

\* read_rp2040_storage.parse_stored_config: the header decoder is called
\* first; past it the function only prints, and returns None at its end
Rp2040_parse_stored_config(data) ==
    LET header == Rp2040_parse_config_header(data) IN
    IF Len(data) < 16 THEN None
    ELSE IF header # None /\ "raise" \in DOMAIN header THEN header
    ELSE None

\* one LogicalInput record as test_config reads it at offset: the type
\* byte, the 8 bytes of the union, the latch mode byte; the fields taken
\* from the union depend on the type
Test_logical_input(config_data, offset) ==
    LET input_type == At(config_data, offset)
        input_data == Slice(config_data, offset + 1, offset + 9)
        latch_mode == At(config_data, offset + 9)
    IN  IF input_type = 0
            THEN [offset |-> offset, input_type |-> input_type,
                  latch_mode |-> latch_mode,
                  pin |-> At(input_data, 0),
                  button_id |-> At(input_data, 1),
                  behavior |-> At(input_data, 2),
                  reversed |-> At(input_data, 3) # 0]
        ELSE IF input_type \in {1, 2}
            THEN [offset |-> offset, input_type |-> input_type,
                  latch_mode |-> latch_mode,
                  first |-> At(input_data, 0),
                  second |-> At(input_data, 1),
                  button_id |-> At(input_data, 2),
                  behavior |-> At(input_data, 3),
                  reversed |-> At(input_data, 4) # 0]
        ELSE [offset |-> offset, input_type |-> input_type,
              latch_mode |-> latch_mode]

\* the loop over range(min(digital_input_count, 50)) of parse_config_data
\* and of create_button_summary: it breaks when fewer than 12 bytes remain,
\* and advances by 1 + 8 + 4 bytes per record
RECURSIVE Test_logical_inputs(_, _, _, _)
Test_logical_inputs(config_data, offset, i, n) ==
    IF i >= n THEN [inputs |-> <<>>, offset |-> offset]
    ELSE IF offset + 12 > Len(config_data) THEN [inputs |-> <<>>, offset |-> offset]
    ELSE LET rest == Test_logical_inputs(config_data, offset + 1 + 8 + 4, i + 1, n)
         IN [inputs |-> <<Test_logical_input(config_data, offset)>> \o rest.inputs,
             offset |-> rest.offset]

\* test_config.parse_config_data, by what it prints: the header fields, the
\* size warning, the counts and the logical inputs; None when it prints
\* "Insufficient configuration data"
Test_parse_config_data(config_data) ==
    IF Len(config_data) < 8 THEN None
    ELSE LET header == [magic |-> U32(config_data, 0),
                        version |-> U16(config_data, 4),
                        size |-> U16(config_data, 6),
                        warning |-> Len(config_data) < U16(config_data, 6)]
             digital_input_count == U16(config_data, 8)
             walk == Test_logical_inputs(config_data, 12, 0,
                                         Min(digital_input_count, 50))
         IN  IF 8 + 4 <= Len(config_data)
                 THEN [header |-> header,
                       digital_input_count |-> digital_input_count,
                       shiftreg_count |-> U16(config_data, 10),
                       inputs |-> walk.inputs,
                       analog |-> walk.offset < Len(config_data)]
             ELSE [header |-> header,
                   analog |-> 8 < Len(config_data)]

\* the buttons dict of create_button_summary: a record with no button (an
\* unknown type) adds nothing, a later record replaces an earlier one with
\* the same button id
Test_buttons(inputs) ==
    LET known == {k \in 1..Len(inputs) : inputs[k].input_type \in {0, 1, 2}}
        last(id) == CHOOSE k \in known :
                       /\ inputs[k].button_id = id
                       /\ \A j \in known : inputs[j].button_id = id => j <= k
    IN  [id \in {inputs[k].button_id : k \in known} |-> inputs[last(id)]]

\* test_config.create_button_summary, lines 382-426, on the data of the
\* parsed response
Test_create_button_summary(config_data) ==
    IF 8 + 4 <= Len(config_data)
        THEN LET digital_input_count == U16(config_data, 8)
                 walk == Test_logical_inputs(config_data, 12, 0,
                                             Min(digital_input_count, 50))
             IN [digital_input_count |-> digital_input_count,
                 inputs |-> walk.inputs,
                 buttons |-> Test_buttons(walk.inputs)]
    ELSE [inputs |-> <<>>, buttons |-> <<>>]

(***************************************************************************)
(* Specification of the frame builders: a payload and a message type are   *)
(* drawn, then each builder is called once on them.                        *)
(***************************************************************************)
\* the session variables of a run in which no script talks to a device
SessionIdle ==
    /\ script = "none"
    /\ pc = "done"
    /\ devDoc = <<>>
    /\ devQueue = <<>>
    /\ deviceOpen = FALSE
    /\ request = None
    /\ received = <<>>
    /\ response = None
    /\ transport = "none"
    /\ log = <<>>

\* the serial-line variables of a run in which no serial-line tool runs
\* {} : a dict with no key
EmptyDict == [k \in {} |-> 0]

\* RawStateMonitor.__init__: the state storage
RawStateMonitor_init ==
    /\ gpio_state = 0
    /\ matrix_state = EmptyDict
    /\ shift_reg_state = EmptyDict
    /\ update_count = 0
    /\ state_line = None

LineIdle ==
    /\ RawStateMonitor_init
    /\ tool = "none"
    /\ fgpc = "done"
    /\ bgpc = "idle"
    /\ monitoring_active = FALSE
    /\ portOpen = FALSE
    /\ rx = <<>>
    /\ tx = <<>>
    /\ dev = [monitoring |-> FALSE, replying |-> FALSE, pending |-> <<>>]
    /\ fgLines = <<>>
    /\ bgLines = <<>>
    /\ sent = <<>>

PayloadByte(i) == (i % 255) + 1
PayloadOf(n) == [i \in 1..n |-> PayloadByte(i)]

Builders == {"hid", "winusb", "test"}

InitBuild ==
    /\ \E n \in 0..MaxPayload : payload = PayloadOf(n)
    /\ msgType \in MessageTypes
    /\ frames = [b \in Builders |-> <<>>]
    /\ buf = <<>>
    /\ results = <<>>
    /\ SessionIdle
    /\ LineIdle

BuildHid ==
    /\ frames["hid"] = <<>>
    /\ frames' = [frames EXCEPT
                    !["hid"] = <<Hid_create_config_message(msgType, 0, 1, payload)>>]
    /\ UNCHANGED <<payload, msgType, decodeVars, sessionVars, lineVars, stateVars>>

BuildWinusb ==
    /\ frames["winusb"] = <<>>
    /\ frames' = [frames EXCEPT
                    !["winusb"] = <<Winusb_create_message(msgType, payload)>>]
    /\ UNCHANGED <<payload, msgType, decodeVars, sessionVars, lineVars, stateVars>>

BuildTest ==
    /\ frames["test"] = <<>>
    /\ frames' = [frames EXCEPT
                    !["test"] = <<Test_create_config_message(msgType, payload)>>]
    /\ UNCHANGED <<payload, msgType, decodeVars, sessionVars, lineVars, stateVars>>

NextBuild == BuildHid \/ BuildWinusb \/ BuildTest

SpecBuild == InitBuild /\ [][NextBuild]_vars

(***************************************************************************)
(* Specification of the decoders: a buffer is drawn, then each decoder is  *)
(* applied to it once.  The buffers are the stored configuration of a      *)
(* device (header, USB identity, counts, 8 axis entries, pin map) cut or   *)
(* over-read to several lengths, with a good or a bad magic; buffers of    *)
(* one repeated byte; and status structures.                               *)
(***************************************************************************)
\* bytes 4A 4F 59 43
JOYC == <<74, 79, 89, 67>>
Magics == {JOYC, <<0, 0, 0, 0>>, <<255, 255, 255, 255>>, <<67, 89, 79, 74>>}
Versions == {1, 258}
Le16(n) == <<n % 256, n \div 256>>
Pad(text, n) == text \o Zeros(n - Len(text))

\* vendorId 0x2E8A, productId 0xA02F, "Joy" and "Core" in 32-byte slots
UsbBlock ==
    <<138, 46, 47, 160>> \o Pad(<<74, 111, 121>>, 32)
        \o Pad(<<67, 111, 114, 101>>, 32) \o Zeros(8)
CountsBlock == <<2, 3, 1, 0>>
AxisBlock(i) ==
    <<(i + 1) % 2, 26 + i>> \o Le16(0) \o Le16(1023) \o <<2, 30>> \o Le16(5)
        \o <<1>> \o Zeros(5)
PinMapBlock == Pad(<<52>>, 8) \o <<1, 0>> \o Pad(<<53>>, 8) \o <<2, 0>>

\* a stored configuration of `size` bytes (at most FullSize), whose header
\* declares that size: header, USB identity, counts, 8 axes, 2 pin map entries
FullSize == 16 + 76 + 4 + 8 * 16 + 2 * 10
Document(magic, version, size) ==
    SubSeq(magic \o Le16(version) \o Le16(size) \o <<0, 0, 0, 0>> \o Zeros(4)
               \o UsbBlock \o CountsBlock
               \o AxisBlock(0) \o AxisBlock(1) \o AxisBlock(2) \o AxisBlock(3)
               \o AxisBlock(4) \o AxisBlock(5) \o AxisBlock(6) \o AxisBlock(7)
               \o PinMapBlock,
           1, size)

MaxOverRead == 2
DocLens ==
    {0, 3, 8, 15, 16, 20, 56, 91, 92, 95, 96, 111, 112, 144, 223, 224, FullSize,
     FullSize + MaxOverRead}
FillLens == {4, 16, 92, 144}

\* 01 01 00 02 10 00 00 00 00 04 00 00 05 00 00 00
StatusExample == <<1, 1, 0, 2, 16, 0, 0, 0, 0, 4, 0, 0, 5, 0, 0, 0>>
StatusPayloads ==
    {StatusExample, StatusExample \o Zeros(4),
     <<0, 0, 1, 0>> \o <<255, 255, 255, 255, 0, 0, 1, 0>> \o Le16(513) \o Zeros(6),
     <<1, 0, 0, 7>> \o Zeros(9)}

Buffers ==
    {SubSeq(Document(m, v, FullSize) \o Zeros(MaxOverRead), 1, n) :
        m \in Magics, v \in Versions, n \in DocLens}
    \cup {[i \in 1..n |-> b] : b \in {0, 255}, n \in FillLens}
    \cup StatusPayloads

Decoders ==
    {"hid_header", "hid_stored_config", "hid_status", "winusb_status",
     "test_status", "serial_config", "rp2040_header"}

InitDecode ==
    /\ buf \in Buffers
    /\ results = [d \in Decoders |-> NotRun]
    /\ payload = <<>>
    /\ msgType = GET_CONFIG
    /\ frames = [b \in Builders |-> <<>>]
    /\ SessionIdle
    /\ LineIdle

Decode(d, r) ==
    /\ results[d] = NotRun
    /\ results' = [results EXCEPT ![d] = r]
    /\ UNCHANGED <<buildVars, buf, sessionVars, lineVars, stateVars>>

DecodeHidHeader == Decode("hid_header", Hid_parse_config_header(buf))
DecodeHidStoredConfig == Decode("hid_stored_config", Hid_parse_stored_config(buf))
DecodeHidStatus == Decode("hid_status", Hid_parse_config_status(buf))
DecodeWinusbStatus == Decode("winusb_status", Winusb_parse_status(buf))
DecodeTestStatus == Decode("test_status", Test_status_decode(Len(buf), buf))
DecodeSerialConfig == Decode("serial_config", Serial_parse_config_data(buf))
DecodeRp2040Header == Decode("rp2040_header", Rp2040_parse_config_header(buf))

NextDecode ==
    \/ DecodeHidHeader
    \/ DecodeHidStoredConfig
    \/ DecodeHidStatus
    \/ DecodeWinusbStatus
    \/ DecodeTestStatus
    \/ DecodeSerialConfig
    \/ DecodeRp2040Header

SpecDecode == InitDecode /\ [][NextDecode]_vars

(***************************************************************************)
(* Specification of the document decoders: a buffer is drawn, then each    *)
(* decoder of a GetConfig payload is applied to it once.  The buffers are  *)
(* encoded configuration documents in the StoredConfig layout, and         *)
(* configurations in the layout test_config reads (an 8-byte header, two   *)
(* 16-bit counts, the logical inputs), whole, cut short or over-read.      *)
(***************************************************************************)
\* a text of ASCII characters in a fixed slot: cut to leave a terminating
\* zero, then zero-padded
EncodeText(text, n) == Pad(SubSeq(text, 1, Min(Len(text), n - 1)), n)

EncodeAxis(a) ==
    <<IF a.enabled THEN 1 ELSE 0, a.pin>> \o Le16(a.minValue) \o Le16(a.maxValue)
        \o <<a.filterLevel, a.ewmaAlpha>> \o Le16(a.deadband) \o <<a.curve>>
        \o Zeros(5)

\* PinMapEntry: name in an 8-byte slot, pinType, 1 reserved byte
EncodePinMapEntry(e) == EncodeText(e.name, 8) \o <<e.pinType, 0>>

RECURSIVE EncodeAll(_, _)
EncodeAll(Enc(_), entries) ==
    IF entries = <<>> THEN <<>>
    ELSE Enc(Head(entries)) \o EncodeAll(Enc, Tail(entries))

\* the bytes that follow the header of the encoded document d
EncodeBody(d) ==
    Le16(d.usb.vendorID) \o Le16(d.usb.productID)
        \o EncodeText(d.usb.manufacturer, 32) \o EncodeText(d.usb.product, 32)
        \o Zeros(8)
        \o <<d.pinMapCount, d.logicalInputCount, d.shiftRegCount, 0>>
        \o EncodeAll(EncodeAxis, d.axes)
        \o EncodeAll(EncodePinMapEntry, d.pinMap)

\* encode(d): the size field is the serialized length; the checksum field
\* is written as the document carries it
Encode(d) ==
    LET body == EncodeBody(d) IN
    <<d.header.magic.lo % 256, d.header.magic.lo \div 256,
      d.header.magic.hi % 256, d.header.magic.hi \div 256>>
        \o Le16(d.header.version) \o Le16(16 + Len(body))
        \o Le16(d.header.checksum.lo) \o Le16(d.header.checksum.hi)
        \o Zeros(4) \o body

AxisEntry(i) ==
    [enabled |-> i % 2 = 0, pin |-> 26 + i, minValue |-> 0, maxValue |-> 1023,
     filterLevel |-> 2, ewmaAlpha |-> 30, deadband |-> 5, curve |-> 1]

PinMaps ==
    {<<>>, <<[name |-> <<52>>, pinType |-> 1], [name |-> <<53>>, pinType |-> 2]>>}
\* "Joy", and a text that fills its 32-byte slot up to the terminating zero
Manufacturers == {<<74, 111, 121>>, [i \in 1..31 |-> 65 + (i % 26)]}

\* well-formed configuration documents without logical inputs
ConfigDocuments ==
    {[header |-> [magic |-> U32(JOYC, 0), version |-> v,
                  checksum |-> [hi |-> 4660, lo |-> 22136]],
      usb |-> [vendorID |-> 11914, productID |-> 41007,
               manufacturer |-> m, product |-> <<67, 111, 114, 101>>],
      pinMapCount |-> Len(pm), logicalInputCount |-> 0, shiftRegCount |-> 1,
      axes |-> [i \in 1..8 |-> AxisEntry(i - 1)],
      pinMap |-> pm] :
        v \in Versions, m \in Manufacturers, pm \in PinMaps}

EncodedLens(b) == {56, 92, 95, 96, 112, 223, 224, Len(b), Len(b) + MaxOverRead}

\* the configuration as test_config reads it: magic, version, size, the
\* 16-bit input and shift register counts, then per logical input the type
\* byte, the 8 bytes of the union and the 4 bytes of the latch mode
TestInputBytes(t, k) == <<t, 10 + k, 20 + k, 30 + k, 1, k % 2, 0, 0, 0, k % 4, 0, 0, 0>>

RECURSIVE TestInputsBytes(_, _)
TestInputsBytes(types, k) ==
    IF k > Len(types) THEN <<>>
    ELSE TestInputBytes(types[k], k) \o TestInputsBytes(types, k + 1)

TestConfigBytes(types) ==
    LET body == Le16(Len(types)) \o Le16(1) \o TestInputsBytes(types, 1)
    IN JOYC \o Le16(1) \o Le16(8 + Len(body)) \o body

\* PIN, MATRIX, SHIFTREG and a type the scripts do not know
InputTypes == {0, 1, 2, 9}
MaxInputs == 2
TypeSeqs == UNION {[1..n -> InputTypes] : n \in 0..MaxInputs}
TestLens(b) ==
    {n \in {7, 8, 11, 12, 12 + 12, 12 + 13, 12 + 13 + 12} : n <= Len(b)}
        \cup {Len(b), Len(b) + MaxOverRead}

DocBuffers ==
    UNION {{SubSeq(Encode(d) \o Zeros(MaxOverRead), 1, n) :
               n \in EncodedLens(Encode(d))} : d \in ConfigDocuments}
    \cup UNION {{SubSeq(TestConfigBytes(ts) \o Zeros(MaxOverRead), 1, n) :
                    n \in TestLens(TestConfigBytes(ts))} : ts \in TypeSeqs}

DocDecoders ==
    {"hid_stored_config", "rp2040_stored_config", "test_config_data",
     "test_button_summary"}

InitDocument ==
    /\ buf \in DocBuffers
    /\ results = [d \in DocDecoders |-> NotRun]
    /\ payload = <<>>
    /\ msgType = GET_CONFIG
    /\ frames = [b \in Builders |-> <<>>]
    /\ SessionIdle
    /\ LineIdle

DecodeRp2040StoredConfig ==
    Decode("rp2040_stored_config", Rp2040_parse_stored_config(buf))
DecodeTestConfigData == Decode("test_config_data", Test_parse_config_data(buf))
DecodeTestButtonSummary ==
    Decode("test_button_summary", Test_create_button_summary(buf))

NextDocument ==
    \/ DecodeHidStoredConfig
    \/ DecodeRp2040StoredConfig
    \/ DecodeTestConfigData
    \/ DecodeTestButtonSummary

SpecDocument == InitDocument /\ [][NextDocument]_vars

(***************************************************************************)
(* Specification of the text slots: a stored configuration of 92 bytes is  *)
(* drawn whose manufacturer and product slots hold arbitrary bytes, then   *)
(* each decoder of the USB identity is applied to it once.                 *)
(***************************************************************************)
MaxText == 3
\* NUL, 'A', the two bytes of U+00E9, a byte no UTF-8 sequence holds
SlotBytes == {0, 65, 195, 169, 255}
RECURSIVE SlotTexts(_)
\* the byte sequences over SlotBytes of length at most n
SlotTexts(n) ==
    IF n = 0 THEN {<<>>}
    ELSE SlotTexts(n - 1) \cup {Append(t, c) : t \in SlotTexts(n - 1), c \in SlotBytes}
\* the bytes at the start of the manufacturer slot, zero padded, and at
\* the very end of the product slot, after 'A's
TextConfig(t) ==
    JOYC \o Le16(1) \o Le16(92) \o Zeros(8)
        \o <<138, 46, 47, 160>> \o Pad(t, 32)
        \o [i \in 1..(32 - Len(t)) |-> 65] \o t \o Zeros(8)

UsbDecoders == {"hid_usb", "rp2040_usb", "serial_usb"}

InitText ==
    /\ \E t \in SlotTexts(MaxText) : buf = TextConfig(t)
    /\ results = [d \in UsbDecoders |-> NotRun]
    /\ payload = <<>>
    /\ msgType = GET_CONFIG
    /\ frames = [b \in Builders |-> <<>>]
    /\ SessionIdle
    /\ LineIdle

DecodeHidUsb == Decode("hid_usb", Hid_parse_usb_descriptor(From(buf, 16)))
DecodeRp2040Usb == Decode("rp2040_usb", Rp2040_parse_usb_descriptor(buf, 16).usb)
DecodeSerialUsb == Decode("serial_usb", Serial_parse_config_data(buf).usb)

NextText == DecodeHidUsb \/ DecodeRp2040Usb \/ DecodeSerialUsb

SpecText == InitText /\ [][NextText]_vars

(***************************************************************************)
(* Specification of the payload extraction: a response is drawn, then each *)
(* receive path takes the payload out of it once.                          *)
(***************************************************************************)
\* test/test_config.parse_config_response
Test_parse_config_response(resp) ==
    IF Len(resp) < 8 THEN None
    ELSE LET data_length == U16(resp, 4)
         IN [report_id |-> At(resp, 0),
             type |-> At(resp, 1),
             sequence |-> At(resp, 2),
             total_packets |-> At(resp, 3),
             data_length |-> data_length,
             status |-> At(resp, 6),
             data |-> IF data_length > 0 THEN Slice(resp, 8, 8 + data_length)
                      ELSE <<>>]

\* read_config_hid.main, lines 283-291: the config_data handed to
\* parse_stored_config, None when the response is not taken
Hid_main_config_data(resp) ==
    IF Len(resp) < 8 THEN None
    ELSE LET data_length == U16(resp, 4)
         IN IF At(resp, 6) = 0 /\ data_length > 0
                THEN [data_length |-> data_length,
                      data |-> Slice(resp, 8, 8 + data_length)]
            ELSE None

\* read_config_winusb.main, lines 234-245: the status_data handed to
\* parse_status, None when the response is not taken
Winusb_main_status_data(resp) ==
    IF Len(resp) < 8 THEN None
    ELSE LET data_len == U16(resp, 4)
         IN IF At(resp, 6) = 0 /\ data_len > 0
                THEN [data_length |-> data_len,
                      data |-> Slice(resp, 8, 8 + data_len)]
            ELSE None

\* the dataLength a response declares and the number of bytes read
DeclaredLengths == {0, 16, 20, 56, 57, 100, 300}
ResponseLens == {4, 8, 20, 28, CONFIG_USB_MAX_PACKET_SIZE}
ResponseOf(msg_type, declared, status, n) ==
    SubSeq(<<CONFIG_USB_FEATURE_REPORT_ID, msg_type, 0, 1>> \o Le16(declared)
               \o <<status, 0>> \o PayloadOf(DataCapacity),
           1, n)
Responses ==
    {ResponseOf(t, d, st, n) : t \in {GET_CONFIG, GET_CONFIG_STATUS},
                               d \in DeclaredLengths, st \in {0, 1},
                               n \in ResponseLens}

Extractors == {"test_parse_config_response", "hid_main", "winusb_main"}

InitResponse ==
    /\ buf \in Responses
    /\ results = [d \in Extractors |-> NotRun]
    /\ payload = <<>>
    /\ msgType = GET_CONFIG
    /\ frames = [b \in Builders |-> <<>>]
    /\ SessionIdle
    /\ LineIdle

ExtractTest == Decode("test_parse_config_response", Test_parse_config_response(buf))
ExtractHidMain == Decode("hid_main", Hid_main_config_data(buf))
ExtractWinusbMain == Decode("winusb_main", Winusb_main_status_data(buf))

NextResponse == ExtractTest \/ ExtractHidMain \/ ExtractWinusbMain

SpecResponse == InitResponse /\ [][NextResponse]_vars

(***************************************************************************)
(* Text of the line transport.  A line is the sequence of its code points. *)
(***************************************************************************)
\* str.isspace() for the characters a serial line can hold
IsSpace(c) == c \in {9, 10, 11, 12, 13, 28, 29, 30, 31, 32, 133, 160}

\* str.strip(): from the first to the last character that is not white space
Lstrip(t) ==
    LET kept == {i \in 1..Len(t) : ~IsSpace(t[i])}
    IN  IF kept = {} THEN <<>>
        ELSE SubSeq(t, CHOOSE i \in kept : \A j \in kept : i <= j, Len(t))
Rstrip(t) ==
    LET kept == {i \in 1..Len(t) : ~IsSpace(t[i])}
    IN  IF kept = {} THEN <<>>
        ELSE SubSeq(t, 1, CHOOSE i \in kept : \A j \in kept : i >= j)
Strip(t) == Rstrip(Lstrip(t))

\* t.startswith(p)
StartsWith(t, p) == Len(t) >= Len(p) /\ SubSeq(t, 1, Len(p)) = p
\* p in t
Contains(t, p) ==
    \E i \in 1..(Len(t) - Len(p) + 1) : SubSeq(t, i, i + Len(p) - 1) = p

\* t.split(sep) for a one-character separator
RECURSIVE SplitFrom(_, _, _)
SplitFrom(t, sep, part) ==
    IF t = <<>> THEN <<part>>
    ELSE IF t[1] = sep THEN <<part>> \o SplitFrom(Tail(t), sep, <<>>)
    ELSE SplitFrom(Tail(t), sep, Append(part, t[1]))
Split(t, sep) == SplitFrom(t, sep, <<>>)

\* line.decode('utf-8', errors='ignore').strip(); the one-element sets
\* name the bytes and the decoded text, each computed once
DecodeLine(bytes) ==
    CHOOSE line \in {Strip(text) : text \in {Utf8Ignore(b, 1) : b \in {bytes}}} : TRUE

\* serial readline(): the bytes up to and including the first line feed
Readline(bytes) ==
    LET feeds == {i \in 1..Len(bytes) : bytes[i] = 10}
    IN  IF feeds = {} THEN bytes
        ELSE SubSeq(bytes, 1, CHOOSE i \in feeds : \A j \in feeds : i <= j)

(***************************************************************************)
(* The identification checks: what each tool makes of the bytes a port     *)
(* answers to IDENTIFY.                                                    *)
(***************************************************************************)
\* "JOYCORE_ID", "JOYCORE-FW", "4A4F5943"
EXPECTED_PREFIX == <<74, 79, 89, 67, 79, 82, 69, 95, 73, 68>>
EXPECTED_SIGNATURE == <<74, 79, 89, 67, 79, 82, 69, 45, 70, 87>>
EXPECTED_MAGIC == <<52, 65, 52, 70, 53, 57, 52, 51>>
\* "JOYCORE", "JoyCore", "DEVICE_ID"
Text_JOYCORE == <<74, 79, 89, 67, 79, 82, 69>>
Text_JoyCore == <<74, 111, 121, 67, 111, 114, 101>>
Text_DEVICE_ID == <<68, 69, 86, 73, 67, 69, 95, 73, 68>>
Colon == 58

\* test_device_identification.test_joycore_identification, per port
Test_joycore_identification(answer) ==
    LET answerLine == DecodeLine(Readline(answer))
        parts == Split(answerLine, Colon)
    IN  IF answerLine # <<>> /\ Len(parts) >= 4 /\ parts[1] = EXPECTED_PREFIX
           /\ parts[2] = EXPECTED_SIGNATURE /\ parts[3] = EXPECTED_MAGIC
            THEN [recognised |-> TRUE, firmware_version |-> parts[4]]
        ELSE [recognised |-> FALSE]

\* JoyCoreSerial.send_command: the chunks read until one holds a line feed,
\* stripped; here the whole answer arrives in one chunk
JoyCoreSerial_send_command(answer) == DecodeLine(answer)

\* test_hid_mapping_serial.JoyCoreSerial.connect
JoyCoreSerial_connect(answer) ==
    [recognised |-> Contains(JoyCoreSerial_send_command(answer), Text_JOYCORE)]

\* test_hid_mapping_serial.JoyCoreSerial.auto_detect_port, per port:
\* read(100), not stripped
JoyCoreSerial_auto_detect_port(answer) ==
    [recognised |-> Contains(Utf8Ignore(Slice(answer, 0, 100), 1), Text_JOYCORE)]

\* find_serial_port of raw_state_monitor, test_raw_state_commands and
\* interactive_raw_state_test, per port
Raw_find_serial_port(answer) ==
    LET answerLine == DecodeLine(Readline(answer))
    IN [recognised |-> \/ Contains(answerLine, Text_JoyCore)
                       \/ Contains(answerLine, Text_DEVICE_ID)]

\* raw_state_monitor.RawStateMonitor.connect: raises unless the answer
\* holds 'JoyCore' or 'DEVICE_ID'
RawStateMonitor_connect(answer) ==
    LET answerLine == DecodeLine(Readline(answer))
    IN IF Contains(answerLine, Text_JoyCore) \/ Contains(answerLine, Text_DEVICE_ID)
           THEN [recognised |-> TRUE]
       ELSE Raise("Exception")

\* firmware versions: "1.0.0", "2.1.0-rc1", "JoyCore-1.0"
FirmwareVersions == {<<49, 46, 48, 46, 48>>, <<50, 46, 49, 46, 48, 45, 114, 99, 49>>, <<74, 111, 121, 67, 111, 114, 101, 45, 49, 46, 48>>}
\* the answer of the identification grammar for a firmware version
IdentifyReply(version) ==
    EXPECTED_PREFIX \o <<Colon>> \o EXPECTED_SIGNATURE \o <<Colon>>
        \o EXPECTED_MAGIC \o <<Colon>> \o version
\* other answers: none, "ERROR:UNKNOWN_COMMAND", "DEVICE_ID:JoyCore:1.0",
\* "JOYCORE_ID:JOYCORE-FW:00000000:1.0.0", "GPIO_STATES:0x0000000F:1234"
OtherReplies ==
    {<<>>, <<69, 82, 82, 79, 82, 58, 85, 78, 75, 78, 79, 87, 78, 95, 67, 79, 77, 77, 65, 78, 68>>, <<68, 69, 86, 73, 67, 69, 95, 73, 68, 58, 74, 111, 121, 67, 111, 114, 101, 58, 49, 46, 48>>, <<74, 79, 89, 67, 79, 82, 69, 95, 73, 68, 58, 74, 79, 89, 67, 79, 82, 69, 45, 70, 87, 58, 48, 48, 48, 48, 48, 48, 48, 48, 58, 49, 46, 48, 46, 48>>, <<71, 80, 73, 79, 95, 83, 84, 65, 84, 69, 83, 58, 48, 120, 48, 48, 48, 48, 48, 48, 48, 70, 58, 49, 50, 51, 52>>}
\* line ends: "\r\n", "\n"
LineEnds == {<<13, 10>>, <<10>>}
IdentifyAnswers ==
    {r \o e : r \in {IdentifyReply(v) : v \in FirmwareVersions} \cup OtherReplies,
              e \in LineEnds}

IdentChecks ==
    {"test_joycore_identification", "JoyCoreSerial_connect",
     "JoyCoreSerial_auto_detect_port", "find_serial_port",
     "RawStateMonitor_connect"}

InitIdentify ==
    /\ buf \in IdentifyAnswers
    /\ results = [c \in IdentChecks |-> NotRun]
    /\ payload = <<>>
    /\ msgType = GET_CONFIG
    /\ frames = [b \in Builders |-> <<>>]
    /\ SessionIdle
    /\ LineIdle

CheckTestIdentification ==
    Decode("test_joycore_identification", Test_joycore_identification(buf))
CheckJoyCoreSerialConnect ==
    Decode("JoyCoreSerial_connect", JoyCoreSerial_connect(buf))
CheckJoyCoreSerialAutoDetect ==
    Decode("JoyCoreSerial_auto_detect_port", JoyCoreSerial_auto_detect_port(buf))
CheckFindSerialPort == Decode("find_serial_port", Raw_find_serial_port(buf))
CheckRawStateMonitorConnect ==
    Decode("RawStateMonitor_connect", RawStateMonitor_connect(buf))

NextIdentify ==
    \/ CheckTestIdentification
    \/ CheckJoyCoreSerialConnect
    \/ CheckJoyCoreSerialAutoDetect
    \/ CheckFindSerialPort
    \/ CheckRawStateMonitorConnect

SpecIdentify == InitIdentify /\ [][NextIdentify]_vars

(***************************************************************************)
(* The device, as the scripts see it through the feature report: it holds  *)
(* a stored configuration and a status structure, and answers a request    *)
(* with a transfer of ConfigMessage frames, one frame per read.  The       *)
(* firmware is outside the scripts: what it answers is drawn from the      *)
(* well-formed transfer and from malformed ones.                           *)
(***************************************************************************)
\* struct ConfigMessage, as laid out in the scripts' comments
DeviceFrame(msg_type, sequence, total, status, chunk) ==
    <<CONFIG_USB_FEATURE_REPORT_ID, msg_type, sequence, total,
      Len(chunk) % 256, Len(chunk) \div 256, status, 0>>
        \o Pad(chunk, DataCapacity)

FrameCount(data) == Max(1, (Len(data) + DataCapacity - 1) \div DataCapacity)

\* the frames that carry data in order, 56 bytes per frame
Transfer(msg_type, data, status) ==
    [i \in 1..FrameCount(data) |->
        DeviceFrame(msg_type, i - 1, FrameCount(data), status,
                    Slice(data, (i - 1) * DataCapacity, i * DataCapacity))]

Orders == {"in_order", "last_two_swapped", "first_repeated", "first_two_swapped",
           "renumbered"}

Reorder(fs, order) ==
    LET n == Len(fs) IN
    CASE order = "in_order" -> fs
      [] order = "last_two_swapped" ->
            IF n < 2 THEN fs
            ELSE [i \in 1..n |-> IF i = n - 1 THEN fs[n]
                                 ELSE IF i = n THEN fs[n - 1] ELSE fs[i]]
      [] order = "first_repeated" ->
            [i \in 1..n |-> IF i = 1 THEN fs[1] ELSE fs[i - 1]]
      [] order = "first_two_swapped" ->
            IF n < 2 THEN fs
            ELSE [i \in 1..n |-> IF i = 1 THEN fs[2]
                                 ELSE IF i = 2 THEN fs[1] ELSE fs[i]]
      [] order = "renumbered" ->
            [i \in 1..n |-> [fs[i] EXCEPT ![3] = (@ + 1) % 256]]

DeviceStatus == StatusExample \o Zeros(4)

\* what the device may answer to a request: the data of the command in a
\* transfer with status 0, or an error status with or without data
DeviceTransfers(msg_type) ==
    LET data == IF msg_type = GET_CONFIG THEN devDoc
                ELSE IF msg_type = GET_CONFIG_STATUS THEN DeviceStatus
                ELSE <<>>
    IN  {Reorder(Transfer(msg_type, data, 0), o) : o \in Orders}
        \cup {Transfer(msg_type, d, 1) : d \in {<<>>, data}}

(***************************************************************************)
(* read_config_hid                                                         *)
(***************************************************************************)
RespLens == {4, CONFIG_USB_MAX_PACKET_SIZE}
DevDocLens == {40, 144, FullSize}

Record(entry) == log' = Append(log, entry)

\* send_hid_command(device_path, msg_type), the whole call.  open_path,
\* send_feature_report, the fallback write and get_feature_report each
\* succeed or raise; the read fallback after a failed get_feature_report
\* reads an input report, or nothing within its 1000 ms, and always leaves
\* response = None.  An exception of open_path or of the fallback write
\* reaches the outer handler, which returns None without closing the
\* device.
Send_hid_command(msg_type, next) ==
    /\ pc' = next
    /\ UNCHANGED <<script, devDoc, log, buildVars, decodeVars, lineVars, stateVars>>
    /\ \/ \* open_path raises
          /\ deviceOpen' = FALSE
          /\ response' = None
          /\ received' = <<>>
          /\ transport' = "exception"
          /\ UNCHANGED <<request, devQueue>>
       \/ \* send_feature_report raises, and so does the fallback write
          /\ deviceOpen' = TRUE
          /\ response' = None
          /\ received' = <<>>
          /\ transport' = "exception"
          /\ UNCHANGED <<request, devQueue>>
       \/ \* the request is written, get_feature_report raises; the direct
          \* read gets an input report, or no data before its timeout
          \E transfer \in DeviceTransfers(msg_type),
             read \in {"input_report", "timeout"} :
              /\ request' = Hid_create_config_message(msg_type, 0, 1, <<>>)
              /\ devQueue' = transfer
              /\ received' = <<>>
              /\ response' = None
              /\ transport' = read
              /\ deviceOpen' = FALSE
       \/ \* the request is written and the head frame of the answer is read
          \E transfer \in DeviceTransfers(msg_type), n \in RespLens :
              LET frame == SubSeq(Head(transfer), 1, n) IN
              /\ request' = Hid_create_config_message(msg_type, 0, 1, <<>>)
              /\ devQueue' = Tail(transfer)
              /\ received' = <<frame>>
              /\ response' = IF frame # <<>> THEN frame ELSE None
              /\ transport' = "answered"
              /\ deviceOpen' = FALSE

\* main, lines 263-275: the reply to GET_CONFIG_STATUS
HidMainStatus ==
    /\ script = "hid" /\ pc = "status_reply"
    /\ LET status_data == From(response, 8)
           status == Hid_parse_config_status(status_data)
           handled == response # None /\ Len(response) >= 8
       IN Record([cmd |-> GET_CONFIG_STATUS,
                  received |-> received,
                  response |-> response,
                  transport |-> transport,
                  handed |-> IF handled THEN [data |-> status_data] ELSE None,
                  presented |-> IF handled THEN status ELSE None,
                  error |-> FALSE])
    /\ pc' = "config"
    /\ UNCHANGED <<script, devDoc, devQueue, deviceOpen, request, received, response,
                   transport>>
    /\ UNCHANGED <<buildVars, decodeVars, lineVars, stateVars>>

\* the prints of main, lines 294-313, read config['pinMapCount'], which a
\* configuration decoded from fewer than 96 bytes does not have
HidPresentConfig(config) ==
    IF config = None THEN None
    ELSE IF "pinMapCount" \notin DOMAIN config THEN Raise("KeyError")
    ELSE config

\* main, lines 282-315: the reply to GET_CONFIG
HidMainConfig ==
    /\ script = "hid" /\ pc = "config_reply"
    /\ LET handled == response # None /\ Len(response) >= 8
           status == At(response, 6)
           data_length == U16(response, 4)
           accepted == handled /\ status = 0 /\ data_length > 0
           config_data == Slice(response, 8, 8 + data_length)
       IN Record([cmd |-> GET_CONFIG,
                  received |-> received,
                  response |-> response,
                  transport |-> transport,
                  handed |-> IF accepted THEN [data |-> config_data] ELSE None,
                  presented |-> IF accepted
                                  THEN HidPresentConfig(Hid_parse_stored_config(config_data))
                                  ELSE None,
                  error |-> handled /\ ~accepted])
    /\ pc' = "done"
    /\ UNCHANGED <<script, devDoc, devQueue, deviceOpen, request, received, response,
                   transport>>
    /\ UNCHANGED <<buildVars, decodeVars, lineVars, stateVars>>

HidSendStatus ==
    /\ script = "hid" /\ pc = "status"
    /\ Send_hid_command(GET_CONFIG_STATUS, "status_reply")

HidSendConfig ==
    /\ script = "hid" /\ pc = "config"
    /\ Send_hid_command(GET_CONFIG, "config_reply")

(***************************************************************************)
(* read_config_winusb                                                      *)
(***************************************************************************)
\* JoyCoreConfig.open_device: the device opens, or open raises and main
\* returns
WinusbOpenDevice ==
    /\ script = "winusb" /\ pc = "start"
    /\ \E ok \in BOOLEAN :
          /\ deviceOpen' = ok
          /\ pc' = IF ok THEN "status" ELSE "done"
    /\ UNCHANGED <<script, devDoc, devQueue, request, received, response,
                   transport, log>>
    /\ UNCHANGED <<buildVars, decodeVars, lineVars, stateVars>>

\* JoyCoreConfig.send_command(msg_type), the whole call: None when the
\* device has no feature report or when send or get raises, else the first
\* 64 bytes of the feature report after get
Winusb_send_command(msg_type, next) ==
    /\ pc' = next
    /\ UNCHANGED <<script, devDoc, deviceOpen, log, buildVars, decodeVars, lineVars, stateVars>>
    /\ \/ \* no feature report, or send raises
          /\ response' = None
          /\ received' = <<>>
          /\ transport' \in {"no_report", "exception"}
          /\ UNCHANGED <<request, devQueue>>
       \/ \* the request is sent, get raises
          \E transfer \in DeviceTransfers(msg_type) :
              /\ request' = Winusb_create_message(msg_type, <<>>)
              /\ devQueue' = transfer
              /\ received' = <<>>
              /\ response' = None
              /\ transport' = "exception"
       \/ \* the request is sent and the head frame of the answer is read
          \E transfer \in DeviceTransfers(msg_type) :
              /\ request' = Winusb_create_message(msg_type, <<>>)
              /\ devQueue' = Tail(transfer)
              /\ received' = <<Head(transfer)>>
              /\ response' = Slice(Head(transfer), 0, CONFIG_USB_MAX_PACKET_SIZE)
              /\ transport' = "answered"

WinusbSendStatus ==
    /\ script = "winusb" /\ pc = "status"
    /\ Winusb_send_command(GET_CONFIG_STATUS, "status_reply")

\* main, lines 229-251: the reply to GET_CONFIG_STATUS
WinusbMainStatus ==
    /\ script = "winusb" /\ pc = "status_reply"
    /\ LET handled == response # None /\ response # <<>> /\ Len(response) >= 8
           status_code == At(response, 6)
           data_len == U16(response, 4)
           accepted == handled /\ status_code = 0 /\ data_len > 0
           status_data == Slice(response, 8, 8 + data_len)
       IN Record([cmd |-> GET_CONFIG_STATUS,
                  received |-> received,
                  response |-> response,
                  transport |-> transport,
                  handed |-> IF accepted THEN [data |-> status_data] ELSE None,
                  presented |-> IF accepted THEN Winusb_parse_status(status_data)
                                ELSE None,
                  error |-> FALSE])
    /\ pc' = "config"
    /\ UNCHANGED <<script, devDoc, devQueue, deviceOpen, request, received, response,
                   transport>>
    /\ UNCHANGED <<buildVars, decodeVars, lineVars, stateVars>>

WinusbSendConfig ==
    /\ script = "winusb" /\ pc = "config"
    /\ Winusb_send_command(GET_CONFIG, "config_reply")

\* main, lines 258-263: the reply to GET_CONFIG is printed in hex, not
\* decoded; then the device is closed
WinusbMainConfig ==
    /\ script = "winusb" /\ pc = "config_reply"
    /\ Record([cmd |-> GET_CONFIG,
               received |-> received,
               response |-> response,
               transport |-> transport,
               handed |-> None,
               presented |-> None,
               error |-> FALSE])
    /\ deviceOpen' = FALSE
    /\ pc' = "done"
    /\ UNCHANGED <<script, devDoc, devQueue, request, received, response,
                   transport>>
    /\ UNCHANGED <<buildVars, decodeVars, lineVars, stateVars>>

InitSession ==
    /\ script \in {"hid", "winusb"}
    /\ pc = IF script = "hid" THEN "status" ELSE "start"
    /\ \E m \in {JOYC, <<0, 0, 0, 0>>}, n \in DevDocLens : devDoc = Document(m, 1, n)
    /\ devQueue = <<>>
    /\ deviceOpen = FALSE
    /\ request = None
    /\ received = <<>>
    /\ response = None
    /\ transport = "none"
    /\ log = <<>>
    /\ payload = <<>>
    /\ msgType = GET_CONFIG
    /\ frames = [b \in Builders |-> <<>>]
    /\ buf = <<>>
    /\ results = <<>>
    /\ LineIdle

NextSession ==
    \/ HidSendStatus
    \/ HidMainStatus
    \/ HidSendConfig
    \/ HidMainConfig
    \/ WinusbOpenDevice
    \/ WinusbSendStatus
    \/ WinusbMainStatus
    \/ WinusbSendConfig
    \/ WinusbMainConfig

SpecSession == InitSession /\ [][NextSession]_vars

(***************************************************************************)
(* The serial line.  The device handles the commands written to the port   *)
(* in order and sends lines; the tools read them with readline().          *)
(***************************************************************************)
\* "\r\n"
CRLF == <<13, 10>>
\* "OK:RAW_MONITOR_STARTED", "OK:RAW_MONITOR_STOPPED"
OK_RAW_MONITOR_STARTED == <<79, 75, 58, 82, 65, 87, 95, 77, 79, 78, 73, 84, 79, 82, 95, 83, 84, 65, 82, 84, 69, 68>>
OK_RAW_MONITOR_STOPPED == <<79, 75, 58, 82, 65, 87, 95, 77, 79, 78, 73, 84, 79, 82, 95, 83, 84, 79, 80, 80, 69, 68>>
\* "END_FILES", "ERROR:", "FILE_DATA:"
END_FILES == <<69, 78, 68, 95, 70, 73, 76, 69, 83>>
ERROR_PREFIX == <<69, 82, 82, 79, 82, 58>>
FILE_DATA_PREFIX == <<70, 73, 76, 69, 95, 68, 65, 84, 65, 58>>
\* "ERROR:UNKNOWN_COMMAND", "GPIO_STATES:0x0000000F:1234", "/config.bin",
\* "FILE_DATA:/config.bin:1:00"
Line_ERROR == <<69, 82, 82, 79, 82, 58, 85, 78, 75, 78, 79, 87, 78, 95, 67, 79, 77, 77, 65, 78, 68>>
Line_GPIO == <<71, 80, 73, 79, 95, 83, 84, 65, 84, 69, 83, 58, 48, 120, 48, 48, 48, 48, 48, 48, 48, 70, 58, 49, 50, 51, 52>>
Line_NAME == <<47, 99, 111, 110, 102, 105, 103, 46, 98, 105, 110>>
Line_FILE_DATA == <<70, 73, 76, 69, 95, 68, 65, 84, 65, 58, 47, 99, 111, 110, 102, 105, 103, 46, 98, 105, 110, 58, 49, 58, 48, 48>>

MaxLines == 3
MaxPush == 2

RECURSIVE SeqsUpTo(_, _)
\* the sequences over S of length at most n
SeqsUpTo(S, n) ==
    IF n = 0 THEN {<<>>}
    ELSE LET shorter == SeqsUpTo(S, n - 1)
         IN shorter \cup {Append(q, x) : q \in shorter, x \in S}

\* ser.write(command + "\n"): the command reaches the device
Write(command) ==
    /\ tx' = Append(tx, command)
    /\ sent' = Append(sent, [command |-> command, bgpc |-> bgpc])

\* the device handles the next command written to it: it answers
\* START_RAW_MONITOR and STOP_RAW_MONITOR and switches monitoring mode, and
\* starts to answer any other command with the lines it has
DeviceHandle ==
    /\ tx # <<>>
    /\ tx' = Tail(tx)
    /\ CASE Head(tx) = "START_RAW_MONITOR" ->
               \E ok \in BOOLEAN :
                   IF ok
                       THEN /\ dev' = [dev EXCEPT !.monitoring = TRUE]
                            /\ rx' = Append(rx, OK_RAW_MONITOR_STARTED \o CRLF)
                   ELSE /\ dev' = dev
                        /\ rx' = Append(rx, Line_ERROR \o CRLF)
         [] Head(tx) = "STOP_RAW_MONITOR" ->
               /\ dev' = [dev EXCEPT !.monitoring = FALSE]
               /\ rx' = Append(rx, OK_RAW_MONITOR_STOPPED \o CRLF)
         [] OTHER ->
               /\ dev' = [dev EXCEPT !.replying = TRUE]
               /\ rx' = rx
    /\ UNCHANGED <<tool, fgpc, bgpc, monitoring_active, portOpen, fgLines,
                   bgLines, sent>>
    /\ UNCHANGED <<buildVars, decodeVars, sessionVars, stateVars>>

\* the device sends its next line: a line of the answer in progress, or a
\* state line while monitoring mode is on
DeviceSend ==
    /\ dev.monitoring \/ dev.replying
    /\ dev.pending # <<>>
    /\ rx' = Append(rx, Head(dev.pending) \o CRLF)
    /\ dev' = [dev EXCEPT !.pending = Tail(dev.pending)]
    /\ UNCHANGED <<tool, fgpc, bgpc, monitoring_active, portOpen, tx, fgLines,
                   bgLines, sent>>
    /\ UNCHANGED <<buildVars, decodeVars, sessionVars, stateVars>>

(***************************************************************************)
(* Response collection: read_config_serial.send_command, and               *)
(* RawStateTestManager.read_multiple_responses after the send_command of   *)
(* test_matrix_state.                                                      *)
(***************************************************************************)
\* the end markers of read_config_serial.send_command
IsEndMarker(line) ==
    \/ line = END_FILES
    \/ StartsWith(line, ERROR_PREFIX)
    \/ StartsWith(line, FILE_DATA_PREFIX)

\* send_command: clear the pending input, write the command
SerialSendCommandWrite ==
    /\ tool = "send_command"
    /\ fgpc = "write"
    /\ rx' = <<>>
    /\ Write("LIST_FILES")
    /\ fgpc' = "collect"
    /\ UNCHANGED <<tool, bgpc, monitoring_active, portOpen, dev, fgLines, bgLines>>
    /\ UNCHANGED <<buildVars, decodeVars, sessionVars, stateVars>>

\* send_command, one turn of the loop with input waiting: read a line, keep
\* it unless blank, stop at an end marker
SerialSendCommandRead ==
    /\ tool = "send_command"
    /\ fgpc = "collect"
    /\ rx # <<>>
    /\ \E line \in {DecodeLine(Readline(Head(rx)))} :
          /\ rx' = Tail(rx)
          /\ fgLines' = IF line # <<>> THEN Append(fgLines, line) ELSE fgLines
          /\ fgpc' = IF line # <<>> /\ IsEndMarker(line) THEN "returned" ELSE "collect"
    /\ UNCHANGED <<tool, bgpc, monitoring_active, portOpen, tx, dev, bgLines, sent>>
    /\ UNCHANGED <<buildVars, decodeVars, sessionVars, stateVars>>

\* send_command: the five seconds are over
SerialSendCommandDeadline ==
    /\ tool = "send_command"
    /\ fgpc = "collect"
    /\ fgpc' = "returned"
    /\ UNCHANGED <<tool, bgpc, monitoring_active, portOpen, rx, tx, dev, fgLines,
                   bgLines, sent>>
    /\ UNCHANGED <<buildVars, decodeVars, sessionVars, stateVars>>

\* test_matrix_state: RawStateTestManager.send_command writes the command
ReadMultipleWrite ==
    /\ tool = "read_multiple_responses"
    /\ fgpc = "write"
    /\ Write("READ_MATRIX_STATE")
    /\ fgpc' = "collect"
    /\ UNCHANGED <<tool, bgpc, monitoring_active, portOpen, rx, dev, fgLines,
                   bgLines>>
    /\ UNCHANGED <<buildVars, decodeVars, sessionVars, stateVars>>

\* read_multiple_responses: read_response(0.1) reads a line; a blank one is
\* skipped, any other is kept and restarts the timeout
ReadMultipleRead ==
    /\ tool = "read_multiple_responses"
    /\ fgpc = "collect"
    /\ rx # <<>>
    /\ \E line \in {DecodeLine(Readline(Head(rx)))} :
          /\ rx' = Tail(rx)
          /\ fgLines' = IF line # <<>> THEN Append(fgLines, line) ELSE fgLines
    /\ UNCHANGED <<tool, fgpc, bgpc, monitoring_active, portOpen, tx, dev,
                   bgLines, sent>>
    /\ UNCHANGED <<buildVars, decodeVars, sessionVars, stateVars>>

\* read_multiple_responses: no line came in time; with lines collected that
\* is after 0.1 s, with none after 3 s
ReadMultipleGap ==
    /\ tool = "read_multiple_responses"
    /\ fgpc = "collect"
    /\ rx = <<>>
    /\ fgpc' = "returned"
    /\ UNCHANGED <<tool, bgpc, monitoring_active, portOpen, rx, tx, dev, fgLines,
                   bgLines, sent>>
    /\ UNCHANGED <<buildVars, decodeVars, sessionVars, stateVars>>

\* the lines a device may send
DeviceLines == {<<>>, END_FILES, Line_ERROR, Line_NAME, Line_FILE_DATA}

InitCollect ==
    /\ RawStateMonitor_init
    /\ tool \in {"send_command", "read_multiple_responses"}
    /\ fgpc = "write"
    /\ bgpc = "idle"
    /\ monitoring_active = FALSE
    /\ portOpen = TRUE
    /\ rx \in {<<>>, <<Line_NAME \o CRLF>>}
    /\ tx = <<>>
    /\ \E lines \in SeqsUpTo(DeviceLines, MaxLines) :
           dev = [monitoring |-> FALSE, replying |-> FALSE, pending |-> lines]
    /\ fgLines = <<>>
    /\ bgLines = <<>>
    /\ sent = <<>>
    /\ payload = <<>>
    /\ msgType = GET_CONFIG
    /\ frames = [b \in Builders |-> <<>>]
    /\ buf = <<>>
    /\ results = <<>>
    /\ SessionIdle

NextCollect ==
    \/ DeviceHandle
    \/ DeviceSend
    \/ SerialSendCommandWrite
    \/ SerialSendCommandRead
    \/ SerialSendCommandDeadline
    \/ ReadMultipleWrite
    \/ ReadMultipleRead
    \/ ReadMultipleGap

SpecCollect == InitCollect /\ [][NextCollect]_vars

(***************************************************************************)
(* FILE_DATA lines: read_config_serial.parse_file_data and the loop of     *)
(* main that hands it the lines of a READ_FILE answer.                     *)
(***************************************************************************)
\* response_line.split(':', 3): at most three splits, the rest in one part
RECURSIVE SplitMax(_, _, _, _)
SplitMax(t, sep, maxsplit, part) ==
    IF t = <<>> THEN <<part>>
    ELSE IF maxsplit = 0 THEN <<part \o t>>
    ELSE IF t[1] = sep THEN <<part>> \o SplitMax(Tail(t), sep, maxsplit - 1, <<>>)
    ELSE SplitMax(Tail(t), sep, maxsplit, Append(part, t[1]))

IsDigit(c) == c \in 48..57
\* the value of a hex digit character, -1 for any other character
HexValue(c) ==
    IF c \in 48..57 THEN c - 48
    ELSE IF c \in 65..70 THEN c - 55
    ELSE IF c \in 97..102 THEN c - 87
    ELSE -1

RECURSIVE DecimalValue(_, _)
DecimalValue(t, acc) ==
    IF t = <<>> THEN acc ELSE DecimalValue(Tail(t), 10 * acc + (t[1] - 48))
\* int(text) for a text of decimal digits; ValueError for the empty text and
\* for a text with any other character
ParseInt(t) ==
    IF t # <<>> /\ \A i \in 1..Len(t) : IsDigit(t[i])
        THEN [value |-> DecimalValue(t, 0)]
    ELSE Raise("ValueError")

RECURSIVE HexPairs(_)
HexPairs(t) ==
    IF t = <<>> THEN <<>>
    ELSE <<16 * HexValue(t[1]) + HexValue(t[2])>> \o HexPairs(Tail(Tail(t)))
\* bytes.fromhex(text) for a text without white space: pairs of hex digits,
\* ValueError for an odd length or another character
FromHex(t) ==
    IF Len(t) % 2 = 0 /\ \A i \in 1..Len(t) : HexValue(t[i]) >= 0
        THEN [bytes |-> HexPairs(t)]
    ELSE Raise("ValueError")

\* the pair (None, None); data that is not None is held as [bytes |-> ...]
NonePair == [filename |-> None, data |-> None]

\* read_config_serial.parse_file_data
Parse_file_data(response_line) ==
    LET parts == SplitMax(response_line, Colon, 3, <<>>)
        size == ParseInt(parts[3])
        data == FromHex(parts[4])
    IN  IF ~StartsWith(response_line, FILE_DATA_PREFIX) THEN NonePair
        ELSE IF Len(parts) # 4 THEN NonePair
        ELSE IF "raise" \in DOMAIN size THEN size
        ELSE IF "raise" \in DOMAIN data THEN data
        ELSE [filename |-> parts[2], data |-> data]

\* main, per line of the READ_FILE answer: the file is presented when the
\* line starts with FILE_DATA: and parse_file_data returns data that is
\* not empty; the size printed is len(data)
Main_read_file(line) ==
    LET r == Parse_file_data(line)
    IN  IF ~StartsWith(line, FILE_DATA_PREFIX) THEN [presented |-> FALSE]
        ELSE IF "raise" \in DOMAIN r THEN r
        ELSE IF r.data = None \/ r.data.bytes = <<>> THEN [presented |-> FALSE]
        ELSE [presented |-> TRUE, file |-> r.filename, size |-> Len(r.data.bytes)]

\* file names "/config.bin", "/a"
FileNames == {<<47, 99, 111, 110, 102, 105, 103, 46, 98, 105, 110>>, <<47, 97>>}
\* size fields "0", "1", "2", "3", "10", "x"
SizeTexts == {<<48>>, <<49>>, <<50>>, <<51>>, <<49, 48>>, <<120>>}
\* hex fields "", "00", "4A4F", "4a4f59", "0", "zz", "4A4F5943000000000000"
HexTexts == {<<>>, <<48, 48>>, <<52, 65, 52, 70>>, <<52, 97, 52, 102, 53, 57>>, <<48>>, <<122, 122>>, <<52, 65, 52, 70, 53, 57, 52, 51, 48, 48, 48, 48, 48, 48, 48, 48, 48, 48, 48, 48>>}
FileDataLine(name, size, hex) ==
    FILE_DATA_PREFIX \o name \o <<Colon>> \o size \o <<Colon>> \o hex
\* "FILE_DATA:/a:1" has no hex field
FileAnswerLines ==
    {FileDataLine(n, z, h) : n \in FileNames, z \in SizeTexts, h \in HexTexts}
        \cup {END_FILES, Line_ERROR, Line_NAME, <<70, 73, 76, 69, 95, 68, 65, 84, 65, 58, 47, 97, 58, 49>>}

FileDecoders == {"parse_file_data", "main_read_file"}

InitFileData ==
    /\ buf \in FileAnswerLines
    /\ results = [d \in FileDecoders |-> NotRun]
    /\ payload = <<>>
    /\ msgType = GET_CONFIG
    /\ frames = [b \in Builders |-> <<>>]
    /\ SessionIdle
    /\ LineIdle

ParseFileData == Decode("parse_file_data", Parse_file_data(buf))
MainReadFile == Decode("main_read_file", Main_read_file(buf))

NextFileData == ParseFileData \/ MainReadFile

SpecFileData == InitFileData /\ [][NextFileData]_vars

(***************************************************************************)
(* RawStateMonitor.parse_state_line: the state the monitor keeps of the    *)
(* lines the device pushes.  re.match anchors a pattern at the start of    *)
(* the line only; the lines are ASCII, where \d is 0-9.                    *)
(***************************************************************************)
Digits == 48..57
UpperHex == (48..57) \cup (65..70)

\* "GPIO_STATES:0x", "MATRIX_STATE:", "SHIFT_REG:", ":0x"
Text_GPIO_STATES_0x == <<71, 80, 73, 79, 95, 83, 84, 65, 84, 69, 83, 58, 48, 120>>
Text_MATRIX_STATE == <<77, 65, 84, 82, 73, 88, 95, 83, 84, 65, 84, 69, 58>>
Text_SHIFT_REG == <<83, 72, 73, 70, 84, 95, 82, 69, 71, 58>>
Text_Colon_0x == <<58, 48, 120>>

\* Positions in a line: the index of the next character to match, 0 when
\* the match has failed.
\* a literal p at position i
AfterLiteral(t, i, p) ==
    IF i # 0 /\ i + Len(p) - 1 <= Len(t) /\ SubSeq(t, i, i + Len(p) - 1) = p
        THEN i + Len(p)
    ELSE 0

\* [class]+ at position i: the longest run, of one character at least.
\* Every pattern follows a run by a character outside the class, so no
\* shorter run can match.
AfterRun(t, i, class) ==
    IF i = 0 \/ i > Len(t) THEN 0
    ELSE IF t[i] \notin class THEN 0
    ELSE LET stops == {j \in i..Len(t) : t[j] \notin class}
         IN IF stops = {} THEN Len(t) + 1
            ELSE CHOOSE j \in stops : \A k \in stops : j <= k

RECURSIVE IntOf(_, _, _)
\* int(text, base) for a text of digits of the base
IntOf(t, base, acc) ==
    IF t = <<>> THEN acc ELSE IntOf(Tail(t), base, base * acc + HexValue(t[1]))

\* re.match(r'GPIO_STATES:0x([0-9A-F]+):(\d+)', line): the groups, or None
Match_gpio(line) ==
    LET a == AfterLiteral(line, 1, Text_GPIO_STATES_0x)
        b == AfterRun(line, a, UpperHex)
        c == AfterLiteral(line, b, <<Colon>>)
        d == AfterRun(line, c, Digits)
    IN IF d = 0 THEN None
       ELSE [group1 |-> SubSeq(line, a, b - 1), group2 |-> SubSeq(line, c, d - 1)]

\* re.match(r'MATRIX_STATE:(\d+):(\d+):([01]):(\d+)', line)
Match_matrix(line) ==
    LET a == AfterLiteral(line, 1, Text_MATRIX_STATE)
        b == AfterRun(line, a, Digits)
        c == AfterLiteral(line, b, <<Colon>>)
        d == AfterRun(line, c, Digits)
        e == AfterLiteral(line, d, <<Colon>>)
        f == IF e # 0 /\ e <= Len(line) /\ line[e] \in {48, 49} THEN e + 1 ELSE 0
        g == AfterLiteral(line, f, <<Colon>>)
        h == AfterRun(line, g, Digits)
    IN IF h = 0 THEN None
       ELSE [group1 |-> SubSeq(line, a, b - 1), group2 |-> SubSeq(line, c, d - 1),
             group3 |-> SubSeq(line, e, e), group4 |-> SubSeq(line, g, h - 1)]

\* re.match(r'SHIFT_REG:(\d+):0x([0-9A-F]+):(\d+)', line)
Match_shift(line) ==
    LET a == AfterLiteral(line, 1, Text_SHIFT_REG)
        b == AfterRun(line, a, Digits)
        c == AfterLiteral(line, b, Text_Colon_0x)
        d == AfterRun(line, c, UpperHex)
        e == AfterLiteral(line, d, <<Colon>>)
        f == AfterRun(line, e, Digits)
    IN IF f = 0 THEN None
       ELSE [group1 |-> SubSeq(line, a, b - 1), group2 |-> SubSeq(line, c, d - 1),
             group3 |-> SubSeq(line, e, f - 1)]

\* d[k] = v on a dict
DictPut(d, k, v) == [x \in DOMAIN d \cup {k} |-> IF x = k THEN v ELSE d[x]]

\* parse_state_line storing a fresh row in place of the row it addresses
Parse_state_line_fresh_row(s, line) ==
    LET counted == [s EXCEPT !.update_count = s.update_count + 1]
        gpio_match == Match_gpio(line)
        matrix_match == Match_matrix(line)
        shift_match == Match_shift(line)
    IN IF gpio_match # None
           THEN [counted EXCEPT !.gpio_state = IntOf(gpio_match.group1, 16, 0)]
       ELSE IF matrix_match # None
           THEN LET row == IntOf(matrix_match.group1, 10, 0)
                    col == IntOf(matrix_match.group2, 10, 0)
                    state == IntOf(matrix_match.group3, 10, 0)
                    cells == IF row \in DOMAIN s.matrix_state
                                 THEN s.matrix_state[row]
                             ELSE EmptyDict
                IN [counted EXCEPT
                        !.matrix_state =
                            DictPut(s.matrix_state, row, DictPut(EmptyDict, col, state))]
       ELSE IF shift_match # None
           THEN LET reg_id == IntOf(shift_match.group1, 10, 0)
                    reg_value == IntOf(shift_match.group2, 16, 0)
                IN [counted EXCEPT
                        !.shift_reg_state = DictPut(s.shift_reg_state, reg_id, reg_value)]
       ELSE counted

\* RawStateMonitor.parse_state_line on the state s of the monitor: the
\* state it leaves
Parse_state_line(s, line) ==
    LET counted == [s EXCEPT !.update_count = s.update_count + 1]
        gpio_match == Match_gpio(line)
        matrix_match == Match_matrix(line)
        shift_match == Match_shift(line)
    IN IF gpio_match # None
           THEN [counted EXCEPT !.gpio_state = IntOf(gpio_match.group1, 16, 0)]
       ELSE IF matrix_match # None
           THEN LET row == IntOf(matrix_match.group1, 10, 0)
                    col == IntOf(matrix_match.group2, 10, 0)
                    state == IntOf(matrix_match.group3, 10, 0)
                    cells == IF row \in DOMAIN s.matrix_state
                                 THEN s.matrix_state[row]
                             ELSE EmptyDict
                IN [counted EXCEPT
                        !.matrix_state =
                            DictPut(s.matrix_state, row, DictPut(cells, col, state))]
       ELSE IF shift_match # None
           THEN LET reg_id == IntOf(shift_match.group1, 10, 0)
                    reg_value == IntOf(shift_match.group2, 16, 0)
                IN [counted EXCEPT
                        !.shift_reg_state = DictPut(s.shift_reg_state, reg_id, reg_value)]
       ELSE counted

\* the state storage of the monitor, and parse_state_line acting on it
MonitorState ==
    [gpio_state |-> gpio_state, matrix_state |-> matrix_state,
     shift_reg_state |-> shift_reg_state, update_count |-> update_count]

ParseStateLineOn(line) ==
    LET after == Parse_state_line(MonitorState, line)
    IN /\ gpio_state' = after.gpio_state
       /\ matrix_state' = after.matrix_state
       /\ shift_reg_state' = after.shift_reg_state
       /\ update_count' = after.update_count
       /\ state_line' = line

\* lines handed to parse_state_line in one run of the model
MaxUpdates == 3

\* the lines the monitor may read:
\*   "GPIO_STATES:0x1F:10"
\*   "GPIO_STATES:0x0:7"
\*   "GPIO_STATES:0x1f:10"
\*   "GPIO_STATES:0xA"
\*   "GPIO_STATES:0x2:5 late"
\*   "xGPIO_STATES:0x2:5"
\*   "MATRIX_STATE:0:1:1:5"
\*   "MATRIX_STATE:0:1:0:6"
\*   "MATRIX_STATE:1:0:1:5"
\*   "MATRIX_STATE:0:2:1:9"
\*   "MATRIX_STATE:0:1:2:5"
\*   "SHIFT_REG:0:0xFF:3"
\*   "SHIFT_REG:1:0x0A:3"
\*   "SHIFT_REG:0:0x00:4"
\*   "SHIFT_REG:0:FF:3"
\*   "OK:RAW_MONITOR_STARTED"
StateLines ==
    {<<71, 80, 73, 79, 95, 83, 84, 65, 84, 69, 83, 58, 48, 120, 49, 70, 58, 49, 48>>,
     <<71, 80, 73, 79, 95, 83, 84, 65, 84, 69, 83, 58, 48, 120, 48, 58, 55>>,
     <<71, 80, 73, 79, 95, 83, 84, 65, 84, 69, 83, 58, 48, 120, 49, 102, 58, 49, 48>>,
     <<71, 80, 73, 79, 95, 83, 84, 65, 84, 69, 83, 58, 48, 120, 65>>,
     <<71, 80, 73, 79, 95, 83, 84, 65, 84, 69, 83, 58, 48, 120, 50, 58, 53, 32, 108, 97, 116, 101>>,
     <<120, 71, 80, 73, 79, 95, 83, 84, 65, 84, 69, 83, 58, 48, 120, 50, 58, 53>>,
     <<77, 65, 84, 82, 73, 88, 95, 83, 84, 65, 84, 69, 58, 48, 58, 49, 58, 49, 58, 53>>,
     <<77, 65, 84, 82, 73, 88, 95, 83, 84, 65, 84, 69, 58, 48, 58, 49, 58, 48, 58, 54>>,
     <<77, 65, 84, 82, 73, 88, 95, 83, 84, 65, 84, 69, 58, 49, 58, 48, 58, 49, 58, 53>>,
     <<77, 65, 84, 82, 73, 88, 95, 83, 84, 65, 84, 69, 58, 48, 58, 50, 58, 49, 58, 57>>,
     <<77, 65, 84, 82, 73, 88, 95, 83, 84, 65, 84, 69, 58, 48, 58, 49, 58, 50, 58, 53>>,
     <<83, 72, 73, 70, 84, 95, 82, 69, 71, 58, 48, 58, 48, 120, 70, 70, 58, 51>>,
     <<83, 72, 73, 70, 84, 95, 82, 69, 71, 58, 49, 58, 48, 120, 48, 65, 58, 51>>,
     <<83, 72, 73, 70, 84, 95, 82, 69, 71, 58, 48, 58, 48, 120, 48, 48, 58, 52>>,
     <<83, 72, 73, 70, 84, 95, 82, 69, 71, 58, 48, 58, 70, 70, 58, 51>>,
     <<79, 75, 58, 82, 65, 87, 95, 77, 79, 78, 73, 84, 79, 82, 95, 83, 84, 65, 82, 84, 69, 68>>}

InitState ==
    /\ LineIdle
    /\ payload = <<>>
    /\ msgType = GET_CONFIG
    /\ frames = [b \in Builders |-> <<>>]
    /\ buf = <<>>
    /\ results = <<>>
    /\ SessionIdle

\* monitor_loop hands a line it read to parse_state_line
ParseStateLine ==
    /\ update_count < MaxUpdates
    /\ \E line \in StateLines : ParseStateLineOn(line)
    /\ UNCHANGED <<buildVars, decodeVars, sessionVars, lineVars>>

NextState == ParseStateLine

SpecState == InitState /\ [][NextState]_vars

(***************************************************************************)
(* Raw-state monitoring: test_monitoring of test_raw_state_commands,       *)
(* start_monitoring / stop_monitoring of interactive_raw_state_test and of *)
(* raw_state_monitor, each with its background monitor thread.  A step of  *)
(* a thread is one call on the port or one assignment to the flag; the     *)
(* device sends whole lines, so no readline() is left waiting in mid-line  *)
(* and join(timeout=2) returns only when the thread has ended.             *)
(***************************************************************************)
TEST_RAW == "test_raw_state_commands"
INTERACTIVE == "interactive_raw_state_test"
MONITOR == "raw_state_monitor"
MonitorTools == {TEST_RAW, INTERACTIVE, MONITOR}

\* where the foreground goes when monitoring did not start: test_monitoring
\* and start_monitoring return False; RawStateMonitor.start_monitoring
\* raises and run()'s finally calls stop_monitoring
StartFailed == IF tool = MONITOR THEN "stop_flag" ELSE "disconnect"

\* the foreground writes START_RAW_MONITOR
StartMonitorWrite ==
    /\ tool \in MonitorTools
    /\ fgpc = "start"
    /\ Write("START_RAW_MONITOR")
    /\ fgpc' = "start_read"
    /\ UNCHANGED <<tool, bgpc, monitoring_active, portOpen, rx, dev, fgLines,
                   bgLines>>
    /\ UNCHANGED <<buildVars, decodeVars, sessionVars, stateVars>>

\* the foreground reads the answer to START_RAW_MONITOR and starts the
\* thread on any line that is not blank
StartMonitorRead_any_line ==
    /\ tool \in MonitorTools
    /\ fgpc = "start_read"
    /\ rx # <<>>
    /\ rx' = Tail(rx)
    /\ \E line \in {DecodeLine(Readline(Head(rx)))} :
          IF line = <<>> /\ tool # MONITOR
              THEN UNCHANGED <<fgpc, bgpc, monitoring_active, fgLines>>
          ELSE /\ fgLines' = IF line # <<>> THEN Append(fgLines, line) ELSE fgLines
               /\ IF line # <<>>
                      THEN /\ monitoring_active' = TRUE
                           /\ bgpc' = "loop"
                           /\ fgpc' = "wait"
                  ELSE /\ fgpc' = StartFailed
                       /\ UNCHANGED <<bgpc, monitoring_active>>
    /\ UNCHANGED <<tool, portOpen, tx, dev, bgLines, sent>>
    /\ UNCHANGED <<buildVars, decodeVars, sessionVars, stateVars>>

\* the foreground reads the answer to START_RAW_MONITOR: on exactly
\* OK:RAW_MONITOR_STARTED it sets the flag and starts the thread.
\* read_response skips blank lines; RawStateMonitor takes the one readline()
StartMonitorRead ==
    /\ tool \in MonitorTools
    /\ fgpc = "start_read"
    /\ rx # <<>>
    /\ rx' = Tail(rx)
    /\ \E line \in {DecodeLine(Readline(Head(rx)))} :
          IF line = <<>> /\ tool # MONITOR
              THEN UNCHANGED <<fgpc, bgpc, monitoring_active, fgLines>>
          ELSE /\ fgLines' = IF line # <<>> THEN Append(fgLines, line) ELSE fgLines
               /\ IF line = OK_RAW_MONITOR_STARTED
                      THEN /\ monitoring_active' = TRUE
                           /\ bgpc' = "loop"
                           /\ fgpc' = "wait"
                  ELSE /\ fgpc' = StartFailed
                       /\ UNCHANGED <<bgpc, monitoring_active>>
    /\ UNCHANGED <<tool, portOpen, tx, dev, bgLines, sent>>
    /\ UNCHANGED <<buildVars, decodeVars, sessionVars, stateVars>>

\* no line came while the foreground waited for an answer: read_response
\* returns None, readline() returns ''
ReadResponseTimeout ==
    /\ tool \in MonitorTools
    /\ fgpc \in {"start_read", "stop_read"}
    /\ rx = <<>>
    /\ fgpc' = IF fgpc = "start_read" THEN StartFailed
               ELSE IF tool = TEST_RAW THEN "stop_flag" ELSE "disconnect"
    /\ UNCHANGED <<tool, bgpc, monitoring_active, portOpen, rx, tx, dev, fgLines,
                   bgLines, sent>>
    /\ UNCHANGED <<buildVars, decodeVars, sessionVars, stateVars>>

\* test_monitoring: time.sleep(duration) is over
MonitorSleepEnds ==
    /\ tool = TEST_RAW
    /\ fgpc = "wait"
    /\ fgpc' = "stop_write"
    /\ UNCHANGED <<tool, bgpc, monitoring_active, portOpen, rx, tx, dev, fgLines,
                   bgLines, sent>>
    /\ UNCHANGED <<buildVars, decodeVars, sessionVars, stateVars>>

\* Ctrl+C while the foreground waits: run_interactive and RawStateMonitor.run
\* call stop_monitoring; in run_all_tests only the finally clause runs
KeyboardInterrupt ==
    /\ tool \in MonitorTools
    /\ fgpc = "wait"
    /\ fgpc' = IF tool = TEST_RAW THEN "disconnect" ELSE "stop_flag"
    /\ UNCHANGED <<tool, bgpc, monitoring_active, portOpen, rx, tx, dev, fgLines,
                   bgLines, sent>>
    /\ UNCHANGED <<buildVars, decodeVars, sessionVars, stateVars>>

\* the foreground writes STOP_RAW_MONITOR
StopMonitorWrite ==
    /\ tool \in MonitorTools
    /\ fgpc = "stop_write"
    /\ Write("STOP_RAW_MONITOR")
    /\ fgpc' = IF tool = MONITOR THEN "join" ELSE "stop_read"
    /\ UNCHANGED <<tool, bgpc, monitoring_active, portOpen, rx, dev, fgLines,
                   bgLines>>
    /\ UNCHANGED <<buildVars, decodeVars, sessionVars, stateVars>>

\* the foreground reads the answer to STOP_RAW_MONITOR with read_response;
\* any line but the expected one only prints a warning
StopMonitorRead ==
    /\ tool \in {TEST_RAW, INTERACTIVE}
    /\ fgpc = "stop_read"
    /\ rx # <<>>
    /\ rx' = Tail(rx)
    /\ \E line \in {DecodeLine(Readline(Head(rx)))} :
          IF line = <<>> THEN UNCHANGED <<fgpc, fgLines>>
          ELSE /\ fgLines' = Append(fgLines, line)
               /\ fgpc' = IF tool = TEST_RAW THEN "stop_flag" ELSE "disconnect"
    /\ UNCHANGED <<tool, bgpc, monitoring_active, portOpen, tx, dev, bgLines, sent>>
    /\ UNCHANGED <<buildVars, decodeVars, sessionVars, stateVars>>

\* the foreground clears the flag the background loop tests
StopMonitorFlag ==
    /\ tool \in MonitorTools
    /\ fgpc = "stop_flag"
    /\ monitoring_active' = FALSE
    /\ fgpc' = IF tool = MONITOR THEN "stop_write" ELSE "join"
    /\ UNCHANGED <<tool, bgpc, portOpen, rx, tx, dev, fgLines, bgLines, sent>>
    /\ UNCHANGED <<buildVars, decodeVars, sessionVars, stateVars>>

\* monitor_thread.join(timeout=2), when there is a thread
JoinMonitorThread ==
    /\ tool \in MonitorTools
    /\ fgpc = "join"
    /\ bgpc \in {"idle", "done"}
    /\ fgpc' = IF tool = INTERACTIVE THEN "stop_write" ELSE "disconnect"
    /\ UNCHANGED <<tool, bgpc, monitoring_active, portOpen, rx, tx, dev, fgLines,
                   bgLines, sent>>
    /\ UNCHANGED <<buildVars, decodeVars, sessionVars, stateVars>>

\* disconnect() / the end of run(): with the flag still set,
\* RawStateTestManager.disconnect calls self.stop_monitor(), which the class
\* does not define, and the AttributeError leaves the port open
Disconnect ==
    /\ tool \in MonitorTools
    /\ fgpc = "disconnect"
    /\ IF tool = TEST_RAW /\ monitoring_active
           THEN /\ fgpc' = "crashed"
                /\ portOpen' = portOpen
       ELSE /\ fgpc' = "done"
            /\ portOpen' = FALSE
    /\ UNCHANGED <<tool, bgpc, monitoring_active, rx, tx, dev, fgLines, bgLines,
                   sent>>
    /\ UNCHANGED <<buildVars, decodeVars, sessionVars, stateVars>>

\* the background thread tests the flag: while self.monitoring_active
MonitorLoopTest ==
    /\ tool \in MonitorTools
    /\ bgpc = "loop"
    /\ bgpc' = IF monitoring_active THEN "read" ELSE "done"
    /\ UNCHANGED <<tool, fgpc, monitoring_active, portOpen, rx, tx, dev, fgLines,
                   bgLines, sent>>
    /\ UNCHANGED <<buildVars, decodeVars, sessionVars, stateVars>>

\* the background thread reads a line: read_response(0.1) skips a blank
\* line and goes on reading, monitor_loop reads one line per turn
MonitorLoopRead ==
    /\ tool \in MonitorTools
    /\ bgpc = "read"
    /\ rx # <<>>
    /\ rx' = Tail(rx)
    /\ \E line \in {DecodeLine(Readline(Head(rx)))} :
          IF line = <<>>
              THEN /\ bgpc' = IF tool = MONITOR THEN "loop" ELSE "read"
                   /\ bgLines' = bgLines
          ELSE /\ bgLines' = Append(bgLines, line)
               /\ bgpc' = "loop"
    /\ \E line \in {DecodeLine(Readline(Head(rx)))} :
          IF tool = MONITOR /\ line # <<>>
              THEN ParseStateLineOn(line)
          ELSE UNCHANGED stateVars
    /\ UNCHANGED <<tool, fgpc, monitoring_active, portOpen, tx, dev, fgLines, sent>>
    /\ UNCHANGED <<buildVars, decodeVars, sessionVars>>

\* the background thread found nothing to read in this turn
MonitorLoopIdle ==
    /\ tool \in MonitorTools
    /\ bgpc = "read"
    /\ rx = <<>>
    /\ bgpc' = "loop"
    /\ UNCHANGED <<tool, fgpc, monitoring_active, portOpen, rx, tx, dev, fgLines,
                   bgLines, sent>>
    /\ UNCHANGED <<buildVars, decodeVars, sessionVars, stateVars>>

\* the read raises in the background thread: except: break
MonitorLoopError ==
    /\ tool \in MonitorTools
    /\ bgpc = "read"
    /\ bgpc' = "done"
    /\ UNCHANGED <<tool, fgpc, monitoring_active, portOpen, rx, tx, dev, fgLines,
                   bgLines, sent>>
    /\ UNCHANGED <<buildVars, decodeVars, sessionVars, stateVars>>

InitMonitor ==
    /\ RawStateMonitor_init
    /\ tool \in MonitorTools
    /\ fgpc = "start"
    /\ bgpc = "idle"
    /\ monitoring_active = FALSE
    /\ portOpen = TRUE
    /\ rx \in {<<>>, <<Line_GPIO \o CRLF>>}
    /\ tx = <<>>
    /\ \E lines \in SeqsUpTo({Line_GPIO, <<>>}, MaxPush) :
           dev = [monitoring |-> FALSE, replying |-> FALSE, pending |-> lines]
    /\ fgLines = <<>>
    /\ bgLines = <<>>
    /\ sent = <<>>
    /\ payload = <<>>
    /\ msgType = GET_CONFIG
    /\ frames = [b \in Builders |-> <<>>]
    /\ buf = <<>>
    /\ results = <<>>
    /\ SessionIdle

NextMonitor ==
    \/ DeviceHandle
    \/ DeviceSend
    \/ StartMonitorWrite
    \/ StartMonitorRead
    \/ ReadResponseTimeout
    \/ MonitorSleepEnds
    \/ KeyboardInterrupt
    \/ StopMonitorWrite
    \/ StopMonitorRead
    \/ StopMonitorFlag
    \/ JoinMonitorThread
    \/ Disconnect
    \/ MonitorLoopTest
    \/ MonitorLoopRead
    \/ MonitorLoopIdle
    \/ MonitorLoopError

SpecMonitor == InitMonitor /\ [][NextMonitor]_vars

\* Scheduling: both threads and the device keep taking the steps they can
\* take.  Ctrl+C and a read error may never happen, so they are not
\* required to.
ForegroundStep ==
    \/ StartMonitorWrite
    \/ StartMonitorRead
    \/ ReadResponseTimeout
    \/ MonitorSleepEnds
    \/ StopMonitorWrite
    \/ StopMonitorRead
    \/ StopMonitorFlag
    \/ JoinMonitorThread
    \/ Disconnect
BackgroundStep == MonitorLoopTest \/ MonitorLoopRead \/ MonitorLoopIdle
DeviceStep == DeviceHandle \/ DeviceSend

SpecMonitorFair ==
    /\ SpecMonitor
    /\ WF_vars(ForegroundStep)
    /\ WF_vars(BackgroundStep)
    /\ WF_vars(DeviceStep)

(***************************************************************************)
(* Claims about the frame builders (SpecBuild)                             *)
(***************************************************************************)
CeilDiv(n, c) == (n + c - 1) \div c

RECURSIVE SumDataLength(_)
SumDataLength(fs) ==
    IF fs = <<>> THEN 0 ELSE FrameDataLength(Head(fs)) + SumDataLength(Tail(fs))

SplitsPayload(fs, n) ==
    /\ Len(fs) = CeilDiv(n, DataCapacity)
    /\ SumDataLength(fs) = n
    /\ \A i \in 1..Len(fs) :
          /\ FrameSequence(fs[i]) = i - 1
          /\ FrameTotalPackets(fs[i]) = Len(fs)

\* C1: building a request for a payload of N >= 1 bytes yields ceil(N/56)
\* frames whose dataLength fields sum to N, with sequence fields 0..k-1 in
\* order and the same totalPackets = k in every frame, for every builder.
C1_FrameSplitting ==
    \A b \in Builders :
        (frames[b] # <<>> /\ Len(payload) >= 1)
            => SplitsPayload(frames[b], Len(payload))

\* C5: every frame a builder returns is exactly 64 bytes long, its
\* dataLength field is at most the 56-byte slot capacity, and the slot
\* holds exactly that many payload bytes.
C5_FrameShape ==
    \A b \in Builders : \A i \in 1..Len(frames[b]) :
        LET f == frames[b][i] IN
        /\ Len(f) = CONFIG_USB_MAX_PACKET_SIZE
        /\ FrameDataLength(f) <= DataCapacity
        /\ FrameDataLength(f) = Len(payload)
        /\ Slice(f, HeaderSize, HeaderSize + FrameDataLength(f)) = payload

\* the frame of the wire format for a message type and a payload
WireFrame(type, data) ==
    <<2, type, 0, 1, Len(data) % 256, Len(data) \div 256, 0, 0>>
        \o data \o Zeros(64 - 8 - Len(data))

\* C21: for every message type 1..7 and every payload of at most 56 bytes
\* the three builders return the same 64 bytes: report id 2, the type,
\* sequence 0, totalPackets 1, the payload length little-endian, two zero
\* bytes, the payload from byte 8 and zero padding after it.
C21_WireFormat ==
    Len(payload) <= 56 =>
        \A b \in Builders :
            frames[b] # <<>> => frames[b] = <<WireFrame(msgType, payload)>>

C21_Witness ==
    /\ Len(payload) = 56
    /\ msgType = LOAD_CONFIG
    /\ \A b \in Builders : frames[b] # <<>>

(***************************************************************************)
(* Claims about the decoders (SpecDecode)                                  *)
(***************************************************************************)
Ran(d) == results[d] # NotRun
\* the decoder returned a value to its caller: neither None nor an exception
Returned(d) ==
    /\ Ran(d)
    /\ results[d] # None
    /\ "raise" \notin DOMAIN results[d]

ConfigDecoders == {"hid_header", "hid_stored_config", "serial_config", "rp2040_header"}
HeaderDecoders == {"hid_header", "serial_config", "rp2040_header"}
StatusDecoders == {"hid_status", "winusb_status", "test_status"}

HasMagic(b) == Len(b) >= 4 /\ SubSeq(b, 1, 4) = JOYC

\* C7: decoding a buffer whose first 4 bytes are not the magic value yields
\* no document (an InvalidMagic error), whatever the rest of the buffer is.
C7_MagicRejection ==
    \A d \in ConfigDecoders : (Ran(d) /\ ~HasMagic(buf)) => ~Returned(d)

\* C8: no decoder returns as success a document that is only partially
\* populated: a document returned for a buffer that starts with the magic
\* has the USB identity and the counts, and the one of read_config_hid also
\* the 8 axis entries.
C8_NoPartialDocument ==
    /\ (HasMagic(buf) /\ Returned("hid_stored_config")) =>
          /\ "pinMapCount" \in DOMAIN results["hid_stored_config"]
          /\ Len(results["hid_stored_config"].axes) = 8
    /\ (HasMagic(buf) /\ Returned("serial_config")) =>
          /\ "usb" \in DOMAIN results["serial_config"]
          /\ "counts" \in DOMAIN results["serial_config"]

\* the fields of a status structure, read from the bytes of b
StatusFields(b) ==
    [storageInitialized |-> b[1] # 0,
     configLoaded |-> b[2] # 0,
     usingDefaults |-> b[3] # 0,
     currentMode |-> b[4],
     storageUsed |-> [hi |-> b[7] + 256 * b[8], lo |-> b[5] + 256 * b[6]],
     storageAvailable |-> [hi |-> b[11] + 256 * b[12], lo |-> b[9] + 256 * b[10]],
     configVersion |-> b[13] + 256 * b[14]]

StatusFieldNames == DOMAIN StatusFields(StatusExample)

DecodesStatus(d, b) ==
    /\ Returned(d)
    /\ StatusFieldNames \subseteq DOMAIN results[d]
    /\ \A k \in StatusFieldNames : results[d][k] = StatusFields(b)[k]

HeaderOf(d) == IF d = "serial_config" THEN results[d].header ELSE results[d]

\* C10: for a buffer of at least 16 bytes that starts with 4A 4F 59 43,
\* every header decoder returns magic_str = "JOYC", the version read as a
\* little-endian 16-bit value at offset 4, and size and checksum read
\* little-endian at offsets 6 and 8.
C10_HeaderDecode ==
    \A d \in HeaderDecoders :
        (Ran(d) /\ Len(buf) >= 16 /\ HasMagic(buf)) =>
            /\ Returned(d)
            /\ HeaderOf(d).magic_str = <<74, 79, 89, 67>>
            /\ HeaderOf(d).version = buf[5] + 256 * buf[6]
            /\ HeaderOf(d).size = buf[7] + 256 * buf[8]
            /\ LET c == [hi |-> buf[11] + 256 * buf[12], lo |-> buf[9] + 256 * buf[10]]
               IN HeaderOf(d).checksum = IF d = "serial_config" THEN Fmt08X(c) ELSE c

\* hex(w) for a 32-bit value w
Hex32(w) ==
    IF w.hi = 0 THEN PyHex(w.lo) ELSE PyHex(w.hi) \o HexDigits(w.lo, 4, HexLower)

\* C25: for every buffer of at least 16 bytes
\* read_rp2040_storage.parse_config_header returns a header, and its magic,
\* version, size and checksum are the values read_config_hid.parse_config_header
\* and read_config_serial.parse_config_data return for the same bytes.
C25_HeaderAgreement ==
    (Ran("rp2040_header") /\ Len(buf) >= 16) =>
        /\ Returned("rp2040_header")
        /\ Ran("hid_header") =>
               /\ results["rp2040_header"].magic = Hex32(results["hid_header"].magic)
               /\ results["rp2040_header"].version = results["hid_header"].version
               /\ results["rp2040_header"].size = results["hid_header"].size
               /\ results["rp2040_header"].checksum
                      = Hex32(results["hid_header"].checksum)
        /\ Ran("serial_config") =>
               /\ results["rp2040_header"].magic_str
                      = results["serial_config"].header.magic_str
               /\ results["rp2040_header"].version
                      = results["serial_config"].header.version
               /\ results["rp2040_header"].size = results["serial_config"].header.size

(***************************************************************************)
(* Claims about the receive path of read_config_hid (SpecSession)          *)
(***************************************************************************)
\* the frames read are a whole transfer: sequences 0..k-1 in order, each
\* frame with totalPackets = k
WholeTransfer(fs) ==
    /\ fs # <<>>
    /\ \A i \in 1..Len(fs) :
          /\ Len(fs[i]) >= HeaderSize
          /\ FrameSequence(fs[i]) = i - 1
          /\ FrameTotalPackets(fs[i]) = Len(fs)

\* C2: when the frames received for a GetConfig transfer have a gap, a
\* duplicate, a wrong order or an inconsistent totalPackets, the receive
\* path hands no payload to the decoder.
C2_ReassemblyRejects ==
    \A i \in 1..Len(log) :
        (log[i].cmd = GET_CONFIG /\ ~WholeTransfer(log[i].received))
            => log[i].handed = None

\* C3: a reply whose statusCode byte is non-zero is never treated as
\* success: its payload is neither decoded nor presented as a result.
C3_StatusCodeSurfaced ==
    \A i \in 1..Len(log) :
        (/\ log[i].response # None
         /\ Len(log[i].response) >= HeaderSize
         /\ FrameStatus(log[i].response) # 0)
            => (log[i].handed = None /\ log[i].presented = None)

\* C4: the payload of a reply is accepted only if the frame has
\* sequence = 0 and totalPackets = 1.
C4_SingleFrameValidated ==
    \A i \in 1..Len(log) :
        log[i].handed # None =>
            /\ FrameSequence(log[i].response) = 0
            /\ FrameTotalPackets(log[i].response) = 1

\* the device answered the last request with its data in a well-formed
\* transfer of status 0, of which the host has read the head frame whole
AnsweredInOrder(msg_type, data) ==
    /\ received # <<>>
    /\ received \o devQueue = Transfer(msg_type, data, 0)

\* C6: a GetConfig exchange of read_config_hid with a device that holds a well-formed document
\* (magic, header and USB identity, at least 92 bytes) and answers with
\* status 0 gives the caller the document decoded from the complete payload.
C6_GetConfigReturnsDocument ==
    (/\ script = "hid" /\ pc = "done"
     /\ HasMagic(devDoc) /\ Len(devDoc) >= 92
     /\ AnsweredInOrder(GET_CONFIG, devDoc))
        => (/\ log[Len(log)].presented # None
            /\ log[Len(log)].presented = Hid_parse_stored_config(devDoc))

(***************************************************************************)
(* Claims about the document decoders (SpecDocument)                       *)
(***************************************************************************)
\* the decoded document r carries the field values of d
RoundTrips(r, d) ==
    /\ r.header.magic = d.header.magic
    /\ r.header.version = d.header.version
    /\ r.header.size = Len(Encode(d))
    /\ r.header.checksum = d.header.checksum
    /\ r.usb = d.usb
    /\ "pinMapCount" \in DOMAIN r
    /\ r.pinMapCount = d.pinMapCount
    /\ r.logicalInputCount = d.logicalInputCount
    /\ r.shiftRegCount = d.shiftRegCount
    /\ r.axes = d.axes
    /\ d.pinMap # <<>> => ("pinMap" \in DOMAIN r /\ r.pinMap = d.pinMap)

\* C11: decoding the encoding of a well-formed document d gives back a
\* document with the field values of d: header, USB identity, counts, the
\* 8 axis entries and the pin map entries.
C11_RoundTrip ==
    \A d \in ConfigDocuments :
        (buf = Encode(d) /\ Ran("hid_stored_config"))
            => /\ Returned("hid_stored_config")
               /\ RoundTrips(results["hid_stored_config"], d)

\* the axis entry in the 16 bytes of b that start at offset off
AxisFields(b, off) ==
    [enabled |-> b[off + 1] # 0,
     pin |-> b[off + 2],
     minValue |-> b[off + 3] + 256 * b[off + 4],
     maxValue |-> b[off + 5] + 256 * b[off + 6],
     filterLevel |-> b[off + 7],
     ewmaAlpha |-> b[off + 8],
     deadband |-> b[off + 9] + 256 * b[off + 10],
     curve |-> b[off + 11]]

\* C12: every document the configuration decoders return as success has
\* exactly 8 axis entries, entry i decoded from the 16 bytes at offset
\* 96 + 16*i, and reports 224 as the offset of the variable data.
C12_AxisTable ==
    \A d \in {"hid_stored_config", "rp2040_stored_config"} :
        Returned(d) =>
            /\ Len(results[d].axes) = 8
            /\ \A i \in 0..7 : results[d].axes[i + 1] = AxisFields(buf, 96 + 16 * i)
            /\ results[d].variable_data_offset = 224

\* the walkers of the logical-input table, their base offset and the bytes
\* they advance per record
Walkers == {"test_config_data", "test_button_summary"}
WalkBase == 8 + 4
WalkStride == 1 + 8 + 4

\* C13: in each logical-input table walker, record i starts at
\* base + i*stride for the one stride of the walker, whatever the types of
\* the records before it, and a record is decoded only when all the bytes
\* of its stride are in the buffer.
C13_LogicalInputStride ==
    \A w \in Walkers :
        (Returned(w) /\ "inputs" \in DOMAIN results[w]) =>
            \A i \in 1..Len(results[w].inputs) :
                /\ results[w].inputs[i].offset = WalkBase + (i - 1) * WalkStride
                /\ results[w].inputs[i].offset + WalkStride <= Len(buf)

\* C14: for the same payload bytes, parse_config_data and
\* create_button_summary of test_config agree with parse_stored_config of
\* read_config_hid on magic, version, size, the logical-input count and the
\* shift-register count.
C14_LayoutAgreement ==
    LET hid == results["hid_stored_config"]
        test == results["test_config_data"]
        summary == results["test_button_summary"]
    IN  /\ (Returned("hid_stored_config") /\ Returned("test_config_data")) =>
              /\ test.header.magic = hid.header.magic
              /\ test.header.version = hid.header.version
              /\ test.header.size = hid.header.size
              /\ "logicalInputCount" \in DOMAIN hid =>
                    /\ test.digital_input_count = hid.logicalInputCount
                    /\ test.shiftreg_count = hid.shiftRegCount
        /\ (Returned("hid_stored_config") /\ Returned("test_button_summary")
                /\ "logicalInputCount" \in DOMAIN hid) =>
              summary.digital_input_count = hid.logicalInputCount

\* the decoder emitted a warning about the size: only parse_config_data of
\* test_config has one to emit
Warned(d) ==
    /\ "header" \in DOMAIN results[d]
    /\ "warning" \in DOMAIN results[d].header
    /\ results[d].header.warning

\* C15: a buffer that holds the header and the USB identity and whose length
\* differs from the size the header declares, shorter or longer, is decoded
\* all the same and a warning is emitted.
C15_SizeMismatchWarning ==
    \A d \in {"hid_stored_config", "test_config_data"} :
        (Ran(d) /\ Len(buf) >= 16 + 76 /\ HasMagic(buf) /\ Len(buf) # U16(buf, 6))
            => (Returned(d) /\ Warned(d))

(***************************************************************************)
(* Claims about the transport outcomes (SpecSession)                       *)
(***************************************************************************)
\* C16: a request for which no bytes arrive within the timeout and a
\* request that fails with a transport-level exception give the caller
\* different return values.
C16_TimeoutDistinct ==
    \A i, j \in 1..Len(log) :
        (log[i].transport = "timeout" /\ log[j].transport = "exception")
            => log[i].response # log[j].response

\* C27: whenever send_hid_command has returned, the HID device it opened
\* is closed, whether it returns a response, None after a failed read, or
\* None after an exception in the send or fallback steps.
C27_DeviceReleased == script = "hid" => ~deviceOpen

(***************************************************************************)
(* Claims about the identification checks (SpecIdentify)                   *)
(***************************************************************************)
\* the answer is a line of the identification grammar
\* JOYCORE_ID:JOYCORE-FW:4A4F5943:<version>
ConformingAnswer(b) ==
    \E v \in FirmwareVersions, e \in LineEnds : b = IdentifyReply(v) \o e

\* C20: an answer to IDENTIFY that conforms to the identification grammar
\* is recognised as a JoyCore device by every identification check.
C20_IdentifyRecognised ==
    \A c \in IdentChecks :
        (Ran(c) /\ ConformingAnswer(buf))
            => (Returned(c) /\ results[c].recognised)

(***************************************************************************)
(* Claims about response collection (SpecCollect)                          *)
(***************************************************************************)
\* a line that ends a response: the end marker or an error line
IsTerminator(line) == line = END_FILES \/ StartsWith(line, ERROR_PREFIX)

\* C17: the lines a response collection returns hold no line received
\* after the first END_FILES or ERROR: line; that line, when present, is
\* the last one returned.
C17_CollectionEnds ==
    fgpc = "returned" =>
        \A i \in 1..Len(fgLines) : IsTerminator(fgLines[i]) => i = Len(fgLines)

(***************************************************************************)
(* Claims about raw-state monitoring (SpecMonitor)                         *)
(***************************************************************************)
\* a thread is inside a read call on the serial port
FgReading == fgpc \in {"start_read", "stop_read"}
BgReading == bgpc = "read"

\* C18: at no time do the foreground thread and the background monitor
\* thread both read from the serial port.
C18_SingleReader == ~(FgReading /\ BgReading)

\* the foreground reads the answer to the command: every tool for
\* START_RAW_MONITOR, all but raw_state_monitor for STOP_RAW_MONITOR
Awaited(command) == command = "START_RAW_MONITOR" \/ tool # MONITOR

\* C19: a command whose answer the foreground awaits is written only while
\* no background reader runs, and the background reader never consumes
\* the OK:RAW_MONITOR_STOPPED the foreground awaits.
C19_StoppedBeforeCommand ==
    /\ \A i \in 1..Len(sent) :
           Awaited(sent[i].command) => sent[i].bgpc \in {"idle", "done"}
    /\ tool # MONITOR =>
           \A i \in 1..Len(bgLines) : bgLines[i] # OK_RAW_MONITOR_STOPPED

\* START_RAW_MONITOR was written and the first line the foreground read
\* after it was OK:RAW_MONITOR_STARTED
Acknowledged ==
    /\ \E i \in 1..Len(sent) : sent[i].command = "START_RAW_MONITOR"
    /\ fgLines # <<>>
    /\ fgLines[1] = OK_RAW_MONITOR_STARTED

\* C22: the monitoring flag is true or the monitor thread exists only if
\* START_RAW_MONITOR was sent and the line then read was exactly
\* OK:RAW_MONITOR_STARTED; after any other line or none the flag is false
\* and there is no thread.
C22_StartedAfterAck ==
    (monitoring_active \/ bgpc # "idle") => Acknowledged

C22_Witness ==
    /\ monitoring_active
    /\ bgpc = "read"
    /\ fgpc = "wait"

\* C28: once RawStateTestManager.disconnect has run, also when it was
\* called with monitoring_active true, the background monitor thread is
\* stopped and the serial port is closed.
C28_DisconnectCleansUp ==
    (tool = TEST_RAW /\ fgpc \in {"done", "crashed"}) =>
        /\ ~portOpen
        /\ bgpc \in {"idle", "done"}

\* the foreground of raw_state_monitor or of the interactive tool waits in
\* its loop and the background thread has ended; while the foreground
\* waits the thread ends only by a read error
DeadReaderWait ==
    /\ tool \in {INTERACTIVE, MONITOR}
    /\ fgpc = "wait"
    /\ bgpc = "done"

\* C29: when the background reader has ended by a read error, the
\* foreground wait loop eventually ends and stop handling runs, without
\* a keyboard interrupt.
C29_WaitLoopEnds == DeadReaderWait ~> (fgpc # "wait")

(***************************************************************************)
(* Claims about the monitor's state storage (SpecState)                    *)
(***************************************************************************)
\* the cell a row and a column address: its state, None when the dict has
\* no such cell
Cell(m, row, col) ==
    IF row \in DOMAIN m
        THEN IF col \in DOMAIN m[row] THEN [state |-> m[row][col]] ELSE None
    ELSE None
\* the cells a dict of rows holds
Cells(m) == UNION {{<<row, col>> : col \in DOMAIN m[row]} : row \in DOMAIN m}
Register(d, id) == IF id \in DOMAIN d THEN [value |-> d[id]] ELSE None

\* which pattern of parse_state_line the line matches, in the order the
\* function tries them
LineKind(line) ==
    IF Match_gpio(line) # None THEN "gpio"
    ELSE IF Match_matrix(line) # None THEN "matrix"
    ELSE IF Match_shift(line) # None THEN "shift"
    ELSE "other"

FrameOf(line) ==
    /\ update_count' = update_count + 1
    /\ LineKind(line) = "gpio" =>
          /\ matrix_state' = matrix_state
          /\ shift_reg_state' = shift_reg_state
    /\ LineKind(line) = "matrix" =>
          LET m == Match_matrix(line)
              addressed == <<IntOf(m.group1, 10, 0), IntOf(m.group2, 10, 0)>>
          IN /\ gpio_state' = gpio_state
             /\ shift_reg_state' = shift_reg_state
             /\ \A c \in (Cells(matrix_state) \cup Cells(matrix_state')) \ {addressed} :
                    Cell(matrix_state', c[1], c[2]) = Cell(matrix_state, c[1], c[2])
    /\ LineKind(line) = "shift" =>
          LET id == IntOf(Match_shift(line).group1, 10, 0)
          IN /\ gpio_state' = gpio_state
             /\ matrix_state' = matrix_state
             /\ \A r \in (DOMAIN shift_reg_state \cup DOMAIN shift_reg_state') \ {id} :
                    Register(shift_reg_state', r) = Register(shift_reg_state, r)
    /\ LineKind(line) = "other" =>
          /\ gpio_state' = gpio_state
          /\ matrix_state' = matrix_state
          /\ shift_reg_state' = shift_reg_state

\* C30: parse_state_line changes only the state component the line names:
\* a GPIO_STATES line leaves matrix_state and shift_reg_state as they were,
\* a MATRIX_STATE line changes only the cell (row, col) it addresses, a
\* SHIFT_REG line changes only the register it addresses, a line matching
\* no pattern leaves the three components as they were, and update_count
\* increases by exactly one for every line.
C30_FrameEffect == [][stateVars' # stateVars => FrameOf(state_line')]_vars

\* three lines parsed, the last one a MATRIX_STATE line for a row that holds
\* two cells
C30_Witness ==
    /\ update_count = MaxUpdates
    /\ state_line # None
    /\ LineKind(state_line) = "matrix"
    /\ \E row \in DOMAIN matrix_state : \E a, b \in DOMAIN matrix_state[row] : a # b

(***************************************************************************)
(* Claims about FILE_DATA lines (SpecFileData)                             *)
(***************************************************************************)
\* the fields of a line FILE_DATA:<name>:<size>:<hexbytes>
LineFields(line) == Split(line, Colon)
WellFormedFileData(line) ==
    /\ StartsWith(line, FILE_DATA_PREFIX)
    /\ Len(LineFields(line)) = 4
    /\ "value" \in DOMAIN ParseInt(LineFields(line)[3])
DeclaredSize(line) == ParseInt(LineFields(line)[3]).value

\* parse_file_data returned data for the line
ReturnedData ==
    /\ Returned("parse_file_data")
    /\ results["parse_file_data"].data # None

\* C23: when parse_file_data returns data for a line
\* FILE_DATA:<name>:<size>:<hexbytes>, the name returned is <name> and the
\* data has exactly <size> bytes; a line whose hex payload has another
\* length is not presented as a file.
C23_FileDataSize ==
    /\ (WellFormedFileData(buf) /\ ReturnedData) =>
           /\ results["parse_file_data"].filename = LineFields(buf)[2]
           /\ Len(results["parse_file_data"].data.bytes) = DeclaredSize(buf)
    /\ (WellFormedFileData(buf) /\ Returned("main_read_file")
            /\ results["main_read_file"].presented) =>
           results["main_read_file"].size = DeclaredSize(buf)

(***************************************************************************)
(* Claims about the text slots (SpecText)                                  *)
(***************************************************************************)
\* the code points well-formed sequences over SlotBytes decode to:
\* NUL, 'A' and U+00E9
SlotCodePoints == {0, 65, 233}
\* a decoded text holds only those and does not end in NUL
CleanText(t) ==
    /\ \A i \in 1..Len(t) : t[i] \in SlotCodePoints
    /\ t # <<>> => t[Len(t)] # 0

\* C24: decoding the manufacturer and the product slot never fails for any
\* slot content; bytes that are not well-formed UTF-8 are dropped and the
\* text never ends in a zero character.
C24_TextDecode ==
    \A d \in UsbDecoders :
        Ran(d) => /\ Returned(d)
                  /\ CleanText(results[d].manufacturer)
                  /\ CleanText(results[d].product)

C24_Witness ==
    /\ \A d \in UsbDecoders : Ran(d)
    /\ Slice(buf, 20, 23) = <<255, 65, 0>>
    /\ results["serial_usb"].manufacturer = <<65>>

(***************************************************************************)
(* Claims about the payload extraction (SpecResponse)                      *)
(***************************************************************************)
\* C26: for a response of at least 8 bytes the payload a receive path
\* hands on is exactly the first dataLength bytes of the 56-byte payload
\* slot, so it has dataLength bytes; a response that declares more than
\* 56 bytes is not taken with a shorter payload.
C26_PayloadExtraction ==
    \A d \in Extractors :
        (Len(buf) >= 8 /\ Returned(d)) =>
            LET declared == buf[5] + 256 * buf[6] IN
            /\ Len(results[d].data) = declared
            /\ declared <= 56
            /\ results[d].data = [i \in 1..declared |-> PayloadByte(i)]

====
